---- MODULE Spec2Model ----
(***************************************************************************)
(* Verification model of the conversation-agent server (src/server.js):    *)
(* the boundary-aware chunk splitter splitIntoChunks and the per-chunk     *)
(* formatting loop formatTranscription.                                    *)
(*                                                                         *)
(* A JavaScript string is a sequence of one-character strings; offsets are *)
(* the 0-based offsets of the source, sequence indices are offset + 1.     *)
(***************************************************************************)
EXTENDS Integers, Sequences, FiniteSets, TLC

(***************************************************************************)
(* Bounds of the model.                                                    *)
(***************************************************************************)
\* documents of the splitter are built from at most MaxFragments fragments
MaxFragments == 4
\* CHUNK_SIZE ranges over 0..MaxChunkSize
MaxChunkSize == 5
\* OVERLAP_SIZE ranges over 0..MaxOverlap
MaxOverlap == 2
\* documents handed to formatTranscription have at most MaxFormatLen characters
MaxFormatLen == 4

(***************************************************************************)
(* Program constants.                                                      *)
(***************************************************************************)
\* server.js:203  const windowSize = 5000; scaled down with the documents,
\* 4 is the smallest radius whose window can hold a timestamp marker
windowSize == 4
\* server.js:219  let bestPriority = Infinity (above every priority)
Infinity == 99
\* server.js:218  let bestSplit = null
Null == -1

(***************************************************************************)
(* Characters and character classes of the boundary patterns.              *)
(***************************************************************************)
NL == "\n"
Upper == {"A"}
Lower == {"a"}
Digit == {"0"}
Punct == {".", "!", "?"}
\* \s of the regular expressions
Space == {" ", NL}

Min(a, b) == IF a < b THEN a ELSE b
Max(a, b) == IF a > b THEN a ELSE b
Abs(n) == IF n < 0 THEN 0 - n ELSE n

\* String.prototype.slice(start, end)
Slice(s, begin, end) ==
  LET rs == IF begin < 0 THEN Max(Len(s) + begin, 0) ELSE Min(begin, Len(s))
      re == IF end < 0 THEN Max(Len(s) + end, 0) ELSE Min(end, Len(s))
  IN  SubSeq(s, rs + 1, re)

\* String.prototype.slice(start)
SliceFrom(s, begin) == Slice(s, begin, Len(s))

RECURSIVE Flatten(_)
\* chunks.join('')
Flatten(ss) == IF ss = <<>> THEN <<>> ELSE Head(ss) \o Flatten(Tail(ss))

(***************************************************************************)
(* The five boundary patterns, server.js:210-216.  Each operator tells     *)
(* whether a match starts at index k of the window w and how long it is;   *)
(* matchAll returns the matches from left to right.                        *)
(***************************************************************************)
At(w, k) == IF k >= 1 /\ k <= Len(w) THEN w[k] ELSE "<eos>"

RECURSIVE NlRun(_, _)
\* number of consecutive newlines from index k on
NlRun(w, k) == IF At(w, k) = NL THEN 1 + NlRun(w, k + 1) ELSE 0

RECURSIVE LowerRun(_, _)
\* number of consecutive lower-case letters from index k on
LowerRun(w, k) == IF At(w, k) \in Lower THEN 1 + LowerRun(w, k + 1) ELSE 0

RECURSIVE SpaceRun(_, _)
\* number of consecutive white-space characters from index k on
SpaceRun(w, k) == IF At(w, k) \in Space THEN 1 + SpaceRun(w, k + 1) ELSE 0

\* /\n\n+/g : a maximal run of two or more newlines
ParagraphAt(w, k) == At(w, k) = NL /\ At(w, k - 1) # NL /\ NlRun(w, k) >= 2
ParagraphLen(w, k) == NlRun(w, k)

\* /\n(?=[A-Z][a-z]*:)/g : a newline before "Label:"
SpeakerAt(w, k) ==
  /\ At(w, k) = NL
  /\ At(w, k + 1) \in Upper
  /\ At(w, k + 2 + LowerRun(w, k + 2)) = ":"

\* /\n(?=\[\d{2}:\d{2})/g : a newline before "[dd:dd"
TimestampAt(w, k) ==
  /\ At(w, k) = NL
  /\ At(w, k + 1) = "["
  /\ At(w, k + 2) \in Digit /\ At(w, k + 3) \in Digit
  /\ At(w, k + 4) = ":"
  /\ At(w, k + 5) \in Digit /\ At(w, k + 6) \in Digit

\* the last newline of the white-space run of length n that starts at k, or 0
RECURSIVE LastNl(_, _, _)
LastNl(w, k, n) ==
  IF n = 0 THEN 0
  ELSE IF At(w, k + n - 1) = NL THEN k + n - 1 ELSE LastNl(w, k, n - 1)

\* /[.!?]\s*\n/g : punctuation, greedy white space, newline
SentenceAt(w, k) ==
  At(w, k) \in Punct /\ LastNl(w, k + 1, SpaceRun(w, k + 1)) # 0
SentenceLen(w, k) == LastNl(w, k + 1, SpaceRun(w, k + 1)) - k + 1

\* /\n/g
LineAt(w, k) == At(w, k) = NL

MatchAt(name, w, k) ==
  CASE name = "paragraph" -> ParagraphAt(w, k)
    [] name = "speaker"   -> SpeakerAt(w, k)
    [] name = "timestamp" -> TimestampAt(w, k)
    [] name = "sentence"  -> SentenceAt(w, k)
    [] name = "line"      -> LineAt(w, k)

MatchLen(name, w, k) ==
  CASE name = "paragraph" -> ParagraphLen(w, k)
    [] name = "sentence"  -> SentenceLen(w, k)
    [] OTHER              -> 1

RECURSIVE MatchesFrom(_, _, _)
MatchesFrom(name, w, k) ==
  IF k > Len(w) THEN <<>>
  ELSE IF MatchAt(name, w, k)
       THEN <<[index |-> k - 1, length |-> MatchLen(name, w, k)]>>
            \o MatchesFrom(name, w, k + MatchLen(name, w, k))
       ELSE MatchesFrom(name, w, k + 1)

\* [...searchWindow.matchAll(pattern)]
MatchAll(name, w) == MatchesFrom(name, w, 1)

\* server.js:210-216
boundaries ==
  << [priority |-> 1, name |-> "paragraph"],
     [priority |-> 2, name |-> "speaker"],
     [priority |-> 3, name |-> "timestamp"],
     [priority |-> 4, name |-> "sentence"],
     [priority |-> 5, name |-> "line"] >>

RECURSIVE ClosestLatest(_, _)
\* Closest with <= for <: the latest of two equally distant matches wins
ClosestLatest(matches, targetOffset) ==
  IF Len(matches) = 1 THEN matches[1]
  ELSE LET best == ClosestLatest(SubSeq(matches, 1, Len(matches) - 1), targetOffset)
           match == matches[Len(matches)]
           distance == Abs(match.index - targetOffset)
           bestDistance == Abs(best.index - targetOffset)
       IN  IF distance <= bestDistance THEN match ELSE best

RECURSIVE Closest(_, _)
\* matches.reduce((best, match) => distance < bestDistance ? match : best)
Closest(matches, targetOffset) ==
  IF Len(matches) = 1 THEN matches[1]
  ELSE LET best == Closest(SubSeq(matches, 1, Len(matches) - 1), targetOffset)
           match == matches[Len(matches)]
           distance == Abs(match.index - targetOffset)
           bestDistance == Abs(best.index - targetOffset)
       IN  IF distance < bestDistance THEN match ELSE best

\* the search window of the iteration that starts at position
SearchStart(position, chunkEnd) == Max(position, chunkEnd - windowSize)
SearchEnd(txt, chunkEnd) == Min(chunkEnd + windowSize, Len(txt))
SearchWindow(txt, position, chunkEnd) ==
  Slice(txt, SearchStart(position, chunkEnd), SearchEnd(txt, chunkEnd))

RECURSIVE FindBestAnyPriority(_, _, _, _)
\* FindBest without the test priority < bestPriority: the last pattern that
\* matches overwrites the earlier ones
FindBestAnyPriority(n, searchWindow, windowOffset, chunkEnd) ==
  IF n = 0
  THEN [bestSplit |-> Null, bestPriority |-> Infinity, bestBoundaryType |-> "hard"]
  ELSE LET prev == FindBestAnyPriority(n - 1, searchWindow, windowOffset, chunkEnd)
           b == boundaries[n]
           matches == MatchAll(b.name, searchWindow)
       IN  IF Len(matches) > 0
           THEN LET closest == Closest(matches, chunkEnd - windowOffset)
                IN  [bestSplit |-> windowOffset + closest.index + closest.length,
                     bestPriority |-> b.priority,
                     bestBoundaryType |-> b.name]
           ELSE prev

RECURSIVE FindBest(_, _, _, _)
\* the loop over boundaries, server.js:218-238, from entry n on
FindBest(n, searchWindow, windowOffset, chunkEnd) ==
  IF n = 0
  THEN [bestSplit |-> Null, bestPriority |-> Infinity, bestBoundaryType |-> "hard"]
  ELSE LET prev == FindBest(n - 1, searchWindow, windowOffset, chunkEnd)
           b == boundaries[n]
           matches == MatchAll(b.name, searchWindow)
       IN  IF Len(matches) > 0 /\ b.priority < prev.bestPriority
           THEN LET closest == Closest(matches, chunkEnd - windowOffset)
                IN  [bestSplit |-> windowOffset + closest.index + closest.length,
                     bestPriority |-> b.priority,
                     bestBoundaryType |-> b.name]
           ELSE prev

BestBoundary(txt, position, chunkEnd) ==
  FindBest(Len(boundaries), SearchWindow(txt, position, chunkEnd),
           SearchStart(position, chunkEnd), chunkEnd)

\* ActualEnd whose fallback is one character past the target
ActualEndPastTarget(bestSplit, chunkEnd) ==
  IF bestSplit = Null \/ bestSplit = 0 THEN chunkEnd + 1 ELSE bestSplit

\* bestSplit || chunkEnd
ActualEnd(bestSplit, chunkEnd) ==
  IF bestSplit = Null \/ bestSplit = 0 THEN chunkEnd ELSE bestSplit

(***************************************************************************)
(* Inputs.                                                                 *)
(***************************************************************************)
Timestamp == <<"[", "0", "0", ":", "0", "0">>
Fragments == { <<"a">>, <<NL>>, <<".">>, <<" ">>, <<"A", ":">>, Timestamp }

RECURSIVE DocsOf(_)
\* the documents made of at most n fragments
DocsOf(n) ==
  IF n = 0 THEN { <<>> }
  ELSE LET shorter == DocsOf(n - 1)
       IN  shorter \cup { d \o f : d \in shorter, f \in Fragments }

Documents == DocsOf(MaxFragments)
ChunkSizes == 0..MaxChunkSize

\* the documents formatTranscription is run on
FormatDocuments == { d \in Documents : Len(d) <= MaxFormatLen }
OverlapSizes == 0..MaxOverlap
\* response.content of the successful LLM calls
Responses == { <<"f">>, <<"g", NL>> }

(***************************************************************************)
(* Strings built by formatTranscription.                                   *)
(***************************************************************************)
DigitChar == <<"0", "1", "2", "3", "4", "5", "6", "7", "8", "9">>

RECURSIVE NumberToString(_)
\* Number.prototype.toString() of a natural number
NumberToString(n) ==
  IF n < 10 THEN <<DigitChar[n + 1]>>
  ELSE NumberToString(n \div 10) \o <<DigitChar[(n % 10) + 1]>>

\* "\n\n## Chunk "
ErrorPrefix == <<NL, NL, "#", "#", " ", "C", "h", "u", "n", "k", " ">>
\* " (Error formatting)\n\n"
ErrorSuffix == <<" ", "(", "E", "r", "r", "o", "r", " ", "f", "o", "r", "m",
                 "a", "t", "t", "i", "n", "g", ")", NL, NL>>

\* server.js:705, the placeholder of chunk i (0-based) whose call failed
ErrorText(i, chunk) ==
  ErrorPrefix \o NumberToString(i + 1) \o ErrorSuffix \o chunk \o <<NL, NL>>

\* Divider without the rule: a blank line only
BlankDivider == <<NL, NL>>

\* '\n\n---\n\n'
Divider == <<NL, NL, "-", "-", "-", NL, NL>>

RECURSIVE Join(_, _)
\* Array.prototype.join(separator) of an array of strings
Join(ss, sep) ==
  IF ss = <<>> THEN <<>>
  ELSE IF Len(ss) = 1 THEN ss[1]
  ELSE Join(SubSeq(ss, 1, Len(ss) - 1), sep) \o sep \o ss[Len(ss)]

\* OverlapBefore that reads the chunk itself instead of its predecessor
OverlapBeforeOwn(cs, i, size) ==
  IF Len(cs) > 1 /\ i > 0 THEN SliceFrom(cs[i + 1], 0 - size) ELSE <<>>

\* server.js:636-639, the context taken before chunk i
OverlapBefore(cs, i, size) ==
  IF Len(cs) > 1 /\ i > 0 THEN SliceFrom(cs[i], 0 - size) ELSE <<>>

\* server.js:642-645, the context taken after chunk i
OverlapAfter(cs, i, size) ==
  IF Len(cs) > 1 /\ i < Len(cs) - 1 THEN Slice(cs[i + 2], 0, size) ELSE <<>>

\* the prompt files: the placeholders each template holds, in order
SingleChunkTemplate == << "{content}" >>
MultiChunkTemplate ==
  << "{chunk_number}", "{total_chunks}", "{overlap_before}", "{content}",
     "{overlap_after}" >>

RECURSIVE FillPromptTemplate(_, _)
\* server.js:295-301, every placeholder that has a replacement is replaced
FillPromptTemplate(template, replacements) ==
  IF template = <<>> THEN <<>>
  ELSE (IF Head(template) \in DOMAIN replacements
        THEN replacements[Head(template)]
        ELSE <<Head(template)>>)
       \o FillPromptTemplate(Tail(template), replacements)

\* server.js:649-659
Prompt(cs, i, before, after) ==
  IF Len(cs) > 1
  THEN FillPromptTemplate(MultiChunkTemplate,
         [k \in {"{chunk_number}", "{total_chunks}", "{overlap_before}",
                 "{content}", "{overlap_after}"} |->
            CASE k = "{chunk_number}" -> NumberToString(i + 1)
              [] k = "{total_chunks}" -> NumberToString(Len(cs))
              [] k = "{overlap_before}" -> before
              [] k = "{content}" -> cs[i + 1]
              [] k = "{overlap_after}" -> after])
  ELSE FillPromptTemplate(SingleChunkTemplate,
         [k \in {"{content}"} |-> cs[i + 1]])

\* server.js:704, console.error for chunk number n
ChunkError(n) == [level |-> "error", msg |-> "error_formatting_chunk", chunks |-> {n}]

\* server.js:729-734, the closing line of the run: a warning when the number
\* of results differs from the number of chunks, a success line otherwise
Summary(fs, cs) ==
  IF Len(fs) # Len(cs)
  THEN [level |-> "warn", msg |-> "count_mismatch", chunks |-> {}]
  ELSE [level |-> "log", msg |-> "all_formatted", chunks |-> {}]

VARIABLES
  text,              \* rawText, the document given to splitIntoChunks
  targetChunkSize,   \* CHUNK_SIZE, its second argument
  overlapSize,       \* OVERLAP_SIZE
  position,          \* the cursor of the splitter
  chunks,            \* the chunks pushed so far
  boundaryInfo,      \* one telemetry record per chunk
  i,                 \* the loop index of formatTranscription
  overlapBefore,     \* the two context strings of the current iteration
  overlapAfter,
  formattedChunks,   \* the per-chunk results pushed so far
  llmCalls,          \* the calls llm.invoke has received, in order
  llmResults,        \* how each completed call ended, in order
  result,            \* the value formatTranscription returns
  consoleLog,        \* what formatTranscription wrote to the console
  pc                 \* where the run stands

splitVars == <<text, targetChunkSize, position, chunks, boundaryInfo>>
formatVars == <<overlapSize, i, overlapBefore, overlapAfter, formattedChunks,
                llmCalls, llmResults, result, consoleLog>>

VARIABLES
  markdownContent,   \* the argument of parseTopics
  lineIdx,           \* its loop index i
  currentTopic,      \* the topic being accumulated, or null
  currentContent,    \* the lines accumulated for it
  topics,            \* the topics pushed so far
  tpc                \* where parseTopics stands

\* let currentTopic = null: a value no topic record equals (startLine >= 1)
NoTopic == [title |-> <<>>, id |-> <<>>, startLine |-> 0]

topicVars == <<markdownContent, lineIdx, currentTopic, currentContent, topics, tpc>>

VARIABLES
  selectedFiles,     \* the browser's selection Map, in insertion order
  endpoint,          \* the route that received the request
  files,             \* req.body.files
  useRAG,            \* req.body.useRAG
  ragEnabled,        \* RAG_ENABLED
  disk,              \* the documents of TRANSCRIPTIONS_DIR
  vectorStore,       \* the RAG index, each entry with its similarity to the query
  artifacts,         \* the versions of the artifact that exist on disk
  pending,           \* the indices of files whose readFile has not completed
  completed,         \* the indices of files in the order their reads completed
  fileContents,      \* the blocks the callbacks of files.map have returned
  contextText,
  ragResults,        \* what searchRAG returned
  nextVersion,
  prompts,           \* the prompts llm.invoke has received
  written,           \* the files written, in order
  response,          \* the response sent
  apc                \* where the handler stands

requestVars == <<selectedFiles, endpoint, files, useRAG, ragEnabled, disk, vectorStore>>
agentVars == <<requestVars, artifacts, pending, completed, fileContents, contextText,
               ragResults, nextVersion, prompts, written, response, apc>>

\* no response has been sent
NoResponse == [status |-> 0, error |-> "none"]

\* no request is being handled
AgentIdle ==
  /\ selectedFiles = <<>>
  /\ endpoint = "none"
  /\ files = <<>>
  /\ useRAG = FALSE
  /\ ragEnabled = FALSE
  /\ disk = <<>>
  /\ vectorStore = <<>>
  /\ artifacts = {}
  /\ pending = {}
  /\ completed = <<>>
  /\ fileContents = <<>>
  /\ contextText = <<>>
  /\ ragResults = <<>>
  /\ nextVersion = 0
  /\ prompts = <<>>
  /\ written = <<>>
  /\ response = NoResponse
  /\ apc = "idle"

VARIABLES
  ragText,           \* the text given to splitTextIntoChunks
  chunkSize,         \* its second argument
  overlap,           \* its third argument
  start,             \* its cursor
  ragChunks,         \* the chunks it has pushed
  rpc                \* where it stands

ragVars == <<ragText, chunkSize, overlap, start, ragChunks, rpc>>

\* splitTextIntoChunks is not running
RagIdle ==
  /\ ragText = <<>>
  /\ chunkSize = 0
  /\ overlap = 0
  /\ start = 0
  /\ ragChunks = <<>>
  /\ rpc = "idle"

\* the variables of the retrieval index, the browser and the batch route
VARIABLES
  autoSync,          \* RAG_AUTO_SYNC_ON_STARTUP
  syncCalls,         \* the number of POST /api/rag/sync handled
  indexResponse,     \* the last response of the two routes
  ipc                \* where the server stands

indexVars == <<autoSync, syncCalls, indexResponse, ipc>>

\* the server of the index is not running
IndexIdle ==
  /\ autoSync = FALSE
  /\ syncCalls = 0
  /\ indexResponse = NoResponse
  /\ ipc = "idle"

VARIABLES
  transcriptions,    \* the names of the files in TRANSCRIPTIONS_DIR
  rawFiles,          \* the raw transcriptions the run found, in readdir order
  rawIdx,            \* the position of the loop in rawFiles
  processedCount,
  skippedCount,
  results,
  transformLog,      \* the raw files given to formatTranscription, all runs
  writeLog,          \* the formatted files written, all runs
  batchRuns,         \* the number of runs started
  batchResponse,     \* the response of the last run
  afterComplete,     \* history: the run began with the directory as a
                     \* complete run left it
  sinceComplete,     \* history: no raw file has arrived since the last run
                     \* listed the directory, and that run, if it has
                     \* ended, formatted or skipped every file it listed
  bpc                \* where POST /api/format-transcriptions stands

batchVars == <<transcriptions, rawFiles, rawIdx, processedCount, skippedCount, results,
               transformLog, writeLog, batchRuns, batchResponse, afterComplete,
               sinceComplete, bpc>>

\* POST /api/format-transcriptions has not been called
BatchIdle ==
  /\ transcriptions = {}
  /\ rawFiles = <<>>
  /\ rawIdx = 0
  /\ processedCount = 0
  /\ skippedCount = 0
  /\ results = <<>>
  /\ transformLog = <<>>
  /\ writeLog = <<>>
  /\ batchRuns = 0
  /\ batchResponse = NoResponse
  /\ afterComplete = FALSE
  /\ sinceComplete = FALSE
  /\ bpc = "off"

VARIABLES
  artifactDir,       \* the artifact files in TRANSCRIPTIONS_DIR
  now,               \* the clock, in seconds
  reqs,              \* the artifact requests being handled
  started,           \* the number of artifact requests accepted
  responses,         \* the responses sent, in order
  artifactWrites     \* the names given to fs.writeFile for artifacts, in order

versionVars == <<artifactDir, now, reqs, started, responses, artifactWrites>>

\* no artifact request has been received
VersionsIdle ==
  /\ artifactDir = {}
  /\ now = 0
  /\ reqs = <<>>
  /\ started = 0
  /\ responses = <<>>
  /\ artifactWrites = <<>>

VARIABLES
  fileTopics,        \* the page's cache of topic ids, by file name
  currentFile,       \* the file in the viewer
  chosen,            \* history: the files selected and not deselected
  lastOp             \* the handler that ran last

browserVars == <<fileTopics, currentFile, chosen, lastOp>>

\* the page is not open
BrowserIdle ==
  /\ fileTopics = <<>>
  /\ currentFile = <<>>
  /\ chosen = {}
  /\ lastOp = "off"

laterVars == <<ragVars, indexVars, batchVars, versionVars, browserVars>>
LaterIdle == RagIdle /\ IndexIdle /\ BatchIdle /\ VersionsIdle /\ BrowserIdle

\* the variables of the operations other than the request handlers
nonAgentVars == <<splitVars, formatVars, pc, topicVars, laterVars>>

\* the variables of the operations other than formatTranscription
restVars == <<topicVars, agentVars, laterVars>>
vars == <<splitVars, formatVars, pc, restVars>>

\* parseTopics is not running
TopicsIdle ==
  /\ markdownContent = <<>>
  /\ lineIdx = 0
  /\ currentTopic = NoTopic
  /\ currentContent = <<>>
  /\ topics = <<>>
  /\ tpc = "idle"

RestIdle == TopicsIdle /\ AgentIdle /\ LaterIdle

\* the state at the entry of formatTranscription, server.js:604-607
Start ==
  /\ position = 0
  /\ chunks = <<>>
  /\ boundaryInfo = <<>>
  /\ i = 0
  /\ overlapBefore = <<>>
  /\ overlapAfter = <<>>
  /\ formattedChunks = <<>>
  /\ llmCalls = <<>>
  /\ llmResults = <<>>
  /\ result = <<>>
  /\ consoleLog = <<>>
  /\ pc = "split"

Init ==
  /\ text \in FormatDocuments
  /\ targetChunkSize \in ChunkSizes
  /\ overlapSize \in OverlapSizes
  /\ Start
  /\ RestIdle

\* splitIntoChunks called on its own
InitSplit ==
  /\ text \in Documents
  /\ targetChunkSize \in ChunkSizes
  /\ overlapSize = 0
  /\ Start
  /\ RestIdle

\* SplitFinal that records the last chunk as a hard cut
SplitFinalTypedHard ==
  /\ pc = "split"
  /\ position < Len(text)
  /\ position + targetChunkSize >= Len(text)
  /\ LET finalChunk == SliceFrom(text, position)
     IN  /\ chunks' = Append(chunks, finalChunk)
         /\ boundaryInfo' = Append(boundaryInfo,
              [start |-> position, end |-> Len(text), type |-> "hard",
               size |-> Len(finalChunk)])
  /\ pc' = "split_done"
  /\ UNCHANGED <<restVars, text, targetChunkSize, position, formatVars>>

\* SplitFinal under the loop condition position <= text.length
SplitFinalAtEnd ==
  /\ pc = "split"
  /\ position <= Len(text)
  /\ position + targetChunkSize >= Len(text)
  /\ LET finalChunk == SliceFrom(text, position)
     IN  /\ chunks' = Append(chunks, finalChunk)
         /\ boundaryInfo' = Append(boundaryInfo,
              [start |-> position, end |-> Len(text), type |-> "end",
               size |-> Len(finalChunk)])
  /\ pc' = "split_done"
  /\ UNCHANGED <<restVars, text, targetChunkSize, position, formatVars>>

\* server.js:188-200, the last chunk takes everything remaining
SplitFinal ==
  /\ pc = "split"
  /\ position < Len(text)
  /\ position + targetChunkSize >= Len(text)
  /\ LET finalChunk == SliceFrom(text, position)
     IN  /\ chunks' = Append(chunks, finalChunk)
         /\ boundaryInfo' = Append(boundaryInfo,
              [start |-> position, end |-> Len(text), type |-> "end",
               size |-> Len(finalChunk)])
  /\ pc' = "split_done"
  /\ UNCHANGED <<restVars, text, targetChunkSize, position, formatVars>>

\* SplitCut that advances the cursor to the target instead of the cut
SplitCutToTarget ==
  /\ pc = "split"
  /\ position < Len(text)
  /\ LET chunkEnd == position + targetChunkSize
         best == BestBoundary(text, position, chunkEnd)
         actualEnd == ActualEnd(best.bestSplit, chunkEnd)
         chunkText == Slice(text, position, actualEnd)
     IN  /\ chunkEnd < Len(text)
         /\ Len(chunkText) # 0
         /\ chunks' = Append(chunks, chunkText)
         /\ boundaryInfo' = Append(boundaryInfo,
              [start |-> position, end |-> actualEnd,
               type |-> best.bestBoundaryType, size |-> Len(chunkText)])
         /\ position' = chunkEnd
  /\ UNCHANGED <<restVars, text, targetChunkSize, formatVars, pc>>

\* server.js:202-261, a cut at the best boundary or a hard cut
SplitCut ==
  /\ pc = "split"
  /\ position < Len(text)
  /\ LET chunkEnd == position + targetChunkSize
         best == BestBoundary(text, position, chunkEnd)
         actualEnd == ActualEnd(best.bestSplit, chunkEnd)
         chunkText == Slice(text, position, actualEnd)
     IN  /\ chunkEnd < Len(text)
         /\ Len(chunkText) # 0
         /\ chunks' = Append(chunks, chunkText)
         /\ boundaryInfo' = Append(boundaryInfo,
              [start |-> position, end |-> actualEnd,
               type |-> best.bestBoundaryType, size |-> Len(chunkText)])
         /\ position' = actualEnd
  /\ UNCHANGED <<restVars, text, targetChunkSize, formatVars, pc>>

\* server.js:244-248, an empty chunk ends the loop
SplitEmpty ==
  /\ pc = "split"
  /\ position < Len(text)
  /\ LET chunkEnd == position + targetChunkSize
         best == BestBoundary(text, position, chunkEnd)
         actualEnd == ActualEnd(best.bestSplit, chunkEnd)
     IN  /\ chunkEnd < Len(text)
         /\ Len(Slice(text, position, actualEnd)) = 0
  /\ pc' = "split_done"
  /\ UNCHANGED <<restVars, splitVars, formatVars>>

\* server.js:185, the loop condition fails; server.js:272 return
SplitExit ==
  /\ pc = "split"
  /\ position >= Len(text)
  /\ pc' = "split_done"
  /\ UNCHANGED <<restVars, splitVars, formatVars>>

\* server.js:623, the prompt template is read
LoadPrompt ==
  /\ pc = "split_done"
  /\ pc' = "loop"
  /\ UNCHANGED <<restVars, splitVars, formatVars>>

\* server.js:279-291, the prompt file is missing: formatTranscription rejects
LoadPromptFails ==
  /\ pc = "split_done"
  /\ pc' = "rejected"
  /\ UNCHANGED <<restVars, splitVars, formatVars>>

\* Invoke that does not await the call: the loop goes on to the next chunk
InvokeWithoutAwait ==
  /\ pc = "loop"
  /\ i < Len(chunks)
  /\ overlapBefore' = OverlapBefore(chunks, i, overlapSize)
  /\ overlapAfter' = OverlapAfter(chunks, i, overlapSize)
  /\ llmCalls' = Append(llmCalls,
       [chunk |-> i, prompt |-> Prompt(chunks, i, overlapBefore', overlapAfter')])
  /\ i' = i + 1
  /\ UNCHANGED <<restVars, splitVars, overlapSize, formattedChunks, llmResults, result,
                 consoleLog, pc>>

\* server.js:625-665, one iteration up to the call of llm.invoke
Invoke ==
  /\ pc = "loop"
  /\ i < Len(chunks)
  /\ overlapBefore' = OverlapBefore(chunks, i, overlapSize)
  /\ overlapAfter' = OverlapAfter(chunks, i, overlapSize)
  /\ llmCalls' = Append(llmCalls,
       [chunk |-> i, prompt |-> Prompt(chunks, i, overlapBefore', overlapAfter')])
  /\ pc' = "await"
  /\ UNCHANGED <<restVars, splitVars, overlapSize, i, formattedChunks, llmResults, result,
                 consoleLog>>

\* TransformOk that stores the context before the chunk with the response
TransformOkWithOverlap ==
  /\ pc = "await"
  /\ \E content \in Responses :
       /\ formattedChunks' = Append(formattedChunks, overlapBefore \o content)
       /\ llmResults' = Append(llmResults, [ok |-> TRUE, content |-> content])
  /\ i' = i + 1
  /\ pc' = "loop"
  /\ UNCHANGED <<restVars, splitVars, overlapSize, overlapBefore, overlapAfter, llmCalls, result,
                 consoleLog>>

\* server.js:665-700, the call resolves
TransformOk ==
  /\ pc = "await"
  /\ \E content \in Responses :
       /\ formattedChunks' = Append(formattedChunks, content)
       /\ llmResults' = Append(llmResults, [ok |-> TRUE, content |-> content])
  /\ i' = i + 1
  /\ pc' = "loop"
  /\ UNCHANGED <<restVars, splitVars, overlapSize, overlapBefore, overlapAfter, llmCalls, result,
                 consoleLog>>

\* TransformFails without the catch: the rejection ends formatTranscription
TransformFailsAborts ==
  /\ pc = "await"
  /\ llmResults' = Append(llmResults, [ok |-> FALSE, content |-> <<>>])
  /\ pc' = "threw"
  /\ UNCHANGED <<restVars, splitVars, overlapSize, i, overlapBefore, overlapAfter,
                 formattedChunks, llmCalls, result, consoleLog>>

\* server.js:702-722, the call rejects
TransformFails ==
  /\ pc = "await"
  /\ formattedChunks' = Append(formattedChunks, ErrorText(i, chunks[i + 1]))
  /\ llmResults' = Append(llmResults, [ok |-> FALSE, content |-> <<>>])
  /\ i' = i + 1
  /\ pc' = "loop"
  /\ consoleLog' = Append(consoleLog, ChunkError(i + 1))
  /\ UNCHANGED <<restVars, splitVars, overlapSize, overlapBefore, overlapAfter, llmCalls, result>>

\* server.js:736-743, several chunks are joined by the divider
ReturnCombined ==
  /\ pc = "loop"
  /\ i >= Len(chunks)
  /\ Len(chunks) > 1
  /\ result' = Join(formattedChunks, Divider)
  /\ consoleLog' = Append(consoleLog, Summary(formattedChunks, chunks))
  /\ pc' = "done"
  /\ UNCHANGED <<restVars, splitVars, overlapSize, i, overlapBefore, overlapAfter,
                 formattedChunks, llmCalls, llmResults>>

\* server.js:745-748, a single result is returned as it is
ReturnSingle ==
  /\ pc = "loop"
  /\ i >= Len(chunks)
  /\ Len(chunks) <= 1
  /\ Len(formattedChunks) >= 1
  /\ result' = formattedChunks[1]
  /\ consoleLog' = Append(consoleLog, Summary(formattedChunks, chunks))
  /\ pc' = "done"
  /\ UNCHANGED <<restVars, splitVars, overlapSize, i, overlapBefore, overlapAfter,
                 formattedChunks, llmCalls, llmResults>>

\* server.js:746, Buffer.byteLength(undefined) throws when there is no chunk
ReturnThrows ==
  /\ pc = "loop"
  /\ i >= Len(chunks)
  /\ Len(chunks) <= 1
  /\ Len(formattedChunks) = 0
  /\ consoleLog' = Append(consoleLog, Summary(formattedChunks, chunks))
  /\ pc' = "threw"
  /\ UNCHANGED <<restVars, splitVars, overlapSize, i, overlapBefore, overlapAfter,
                 formattedChunks, llmCalls, llmResults, result>>

NextSplit == SplitFinal \/ SplitCut \/ SplitEmpty \/ SplitExit

Next ==
  \/ SplitFinal \/ SplitCut \/ SplitEmpty \/ SplitExit
  \/ LoadPrompt \/ LoadPromptFails
  \/ Invoke \/ TransformOk \/ TransformFails
  \/ ReturnCombined \/ ReturnSingle \/ ReturnThrows

\* formatTranscription(rawText)
Spec == Init /\ [][Next]_vars

\* splitIntoChunks(text, targetChunkSize)
SpecSplit == InitSplit /\ [][NextSplit]_vars

(***************************************************************************)
(* Properties of splitIntoChunks, checked under SpecSplit.                 *)
(***************************************************************************)
PatternNames == {"paragraph", "speaker", "timestamp", "sentence", "line"}
\* paragraph > speaker > timestamp > sentence > line
Rank(name) ==
  CASE name = "paragraph" -> 1 [] name = "speaker" -> 2
    [] name = "timestamp" -> 3 [] name = "sentence" -> 4 [] name = "line" -> 5

\* the search window of the iteration that pushed record r, and its offsets
WindowStartOf(r) == SearchStart(r.start, r.start + targetChunkSize)
WindowOf(r) == SearchWindow(text, r.start, r.start + targetChunkSize)
TargetOf(r) == r.start + targetChunkSize
\* the records of the cuts made before the end of the document was in reach
Cuts == { k \in 1..Len(boundaryInfo) : boundaryInfo[k].type # "end" }
HasMatch(name, w) == MatchAll(name, w) # <<>>
Ceil(a, b) == (a + b - 1) \div b

\* C1: for every document and every target size S >= 1 the chunks returned
\* by splitIntoChunks are an ordered, gap-free, non-overlapping partition of
\* the document: the first starts at 0, each ends where the next starts, the
\* last ends at len(D), and their concatenation is the document.
C1_LosslessPartition ==
  (pc = "split_done" /\ targetChunkSize >= 1) =>
    /\ Len(boundaryInfo) = Len(chunks)
    /\ Flatten(chunks) = text
    /\ chunks # <<>> =>
         /\ boundaryInfo[1].start = 0
         /\ boundaryInfo[Len(boundaryInfo)].end = Len(text)
    /\ \A k \in 1..(Len(chunks) - 1) :
         boundaryInfo[k].end = boundaryInfo[k + 1].start
    /\ \A k \in 1..Len(chunks) :
         /\ boundaryInfo[k].start <= boundaryInfo[k].end
         /\ chunks[k] = SubSeq(text, boundaryInfo[k].start + 1, boundaryInfo[k].end)

\* a finished split into three or more chunks, one of them cut at a boundary
C1_Witness ==
  /\ pc = "split_done" /\ targetChunkSize >= 1
  /\ Len(chunks) >= 3
  /\ \E k \in Cuts : boundaryInfo[k].type \in PatternNames
  /\ \E k \in Cuts : boundaryInfo[k].type = "hard"

\* C2: for every document and every S >= 1 every chunk has length >= 1, and
\* only the empty document yields an empty chunk list.
C2_NoEmptyChunk ==
  targetChunkSize >= 1 =>
    /\ \A k \in 1..Len(chunks) : Len(chunks[k]) >= 1
    /\ pc = "split_done" => (chunks = <<>> <=> text = <<>>)

\* a finished split whose cut at a boundary ended exactly at the end of the
\* document, so that the loop was left by its condition
C2_Witness ==
  /\ pc = "split_done" /\ targetChunkSize >= 1
  /\ Len(chunks) >= 2
  /\ boundaryInfo[Len(boundaryInfo)].type # "end"
  /\ position = Len(text)

\* C3: at each non-final cut the boundary type is the highest-priority
\* pattern with a match in the search window; a lower-priority match never
\* wins over a higher-priority one, however close to the target it is.
C3_PriorityOrder ==
  \A k \in Cuts :
    LET r == boundaryInfo[k]
        w == WindowOf(r)
    IN  /\ r.type \in PatternNames =>
             /\ HasMatch(r.type, w)
             /\ \A n \in PatternNames : Rank(n) < Rank(r.type) => ~HasMatch(n, w)
        /\ r.type = "hard" => \A n \in PatternNames : ~HasMatch(n, w)

\* a cut at a boundary although a lower-priority pattern has a match in the
\* window that lies strictly closer to the target
C3_Witness ==
  \E k \in Cuts :
    LET r == boundaryInfo[k]
        w == WindowOf(r)
        t == TargetOf(r) - WindowStartOf(r)
    IN  /\ r.type \in PatternNames
        /\ \E n \in PatternNames :
             /\ Rank(n) > Rank(r.type)
             /\ \E a \in 1..Len(MatchAll(n, w)) :
                  \A b \in 1..Len(MatchAll(r.type, w)) :
                    Abs(MatchAll(n, w)[a].index - t)
                      < Abs(MatchAll(r.type, w)[b].index - t)

\* C4: among the matches of the winning level the one closest to the target
\* offset is taken, the earliest on a tie, and the cut is placed right after
\* the matched delimiter, which so belongs to the chunk that ends there.
C4_ClosestMatch ==
  \A k \in Cuts :
    LET r == boundaryInfo[k]
        ms == MatchAll(r.type, WindowOf(r))
        t == TargetOf(r) - WindowStartOf(r)
    IN  r.type \in PatternNames =>
          \E j \in 1..Len(ms) :
            /\ r.end = WindowStartOf(r) + ms[j].index + ms[j].length
            /\ r.start <= WindowStartOf(r) + ms[j].index
            /\ \A b \in 1..Len(ms) :
                 /\ Abs(ms[j].index - t) <= Abs(ms[b].index - t)
                 /\ b < j => Abs(ms[j].index - t) < Abs(ms[b].index - t)

\* a cut where two matches of the winning level are equally close to the
\* target and the cut follows the earlier one
C4_Witness ==
  \E k \in Cuts :
    LET r == boundaryInfo[k]
        ms == MatchAll(r.type, WindowOf(r))
        t == TargetOf(r) - WindowStartOf(r)
    IN  /\ r.type \in PatternNames
        /\ \E a, b \in 1..Len(ms) :
             /\ a < b
             /\ Abs(ms[a].index - t) = Abs(ms[b].index - t)
             /\ r.end = WindowStartOf(r) + ms[a].index + ms[a].length

\* C5: when no pattern matches in the search window the cut is at exactly
\* cursor + targetChunkSize with type 'hard'; a document of length L without
\* any boundary, split with S >= 1, gives ceil(L/S) chunks, all of length S
\* and type 'hard' except the last, which has type 'end'.
C5_HardCut ==
  /\ \A k \in Cuts :
       LET r == boundaryInfo[k]
       IN  (\A n \in PatternNames : ~HasMatch(n, WindowOf(r))) =>
             /\ r.end = r.start + targetChunkSize
             /\ r.type = "hard"
  /\ ( /\ pc = "split_done" /\ targetChunkSize >= 1
       /\ \A n \in PatternNames : ~HasMatch(n, text) ) =>
        /\ Len(chunks) = Ceil(Len(text), targetChunkSize)
        /\ Len(boundaryInfo) = Len(chunks)
        /\ \A k \in 1..(Len(chunks) - 1) :
             /\ Len(chunks[k]) = targetChunkSize
             /\ boundaryInfo[k].type = "hard"
        /\ chunks # <<>> => boundaryInfo[Len(chunks)].type = "end"

\* the scenario of the specification in small: length 5, target size 2, no
\* boundary, three chunks hard, hard, end
C5_Witness ==
  /\ pc = "split_done"
  /\ Len(text) = 5 /\ targetChunkSize = 2
  /\ \A n \in PatternNames : ~HasMatch(n, text)
  /\ Len(chunks) = 3
  /\ boundaryInfo[1].type = "hard" /\ boundaryInfo[2].type = "hard"
  /\ boundaryInfo[3].type = "end"

(***************************************************************************)
(* Properties of formatTranscription, checked under Spec.                  *)
(***************************************************************************)
Failed(k) == ~llmResults[k].ok
\* every chunk was handed to the transform and every call failed
AllFailed ==
  /\ chunks # <<>>
  /\ Len(llmResults) = Len(chunks)
  /\ \A k \in 1..Len(llmResults) : Failed(k)
\* the text between the heading and the closing blank line of the
\* placeholder of chunk number k
RawInside(p, k) ==
  SubSeq(p, Len(ErrorPrefix) + Len(NumberToString(k)) + Len(ErrorSuffix) + 1,
         Len(p) - 2)
IsSuffix(a, b) == Len(a) <= Len(b) /\ a = SubSeq(b, Len(b) - Len(a) + 1, Len(b))
IsPrefix(a, b) == Len(a) <= Len(b) /\ a = SubSeq(b, 1, Len(a))

\* C6: a failure of the transform on one chunk never aborts the run: the
\* run ends abnormally only before the first call, every later chunk is
\* still handed to the transform, and at the end there is exactly one result
\* per chunk (the transform output or the placeholder) at the chunk's place.
C6_FailureDoesNotAbort ==
  /\ pc \in {"threw", "rejected"} => llmResults = <<>>
  /\ pc = "loop" => Len(formattedChunks) = i /\ Len(llmCalls) = i
  /\ pc = "done" =>
       /\ Len(llmCalls) = Len(chunks)
       /\ Len(formattedChunks) = Len(chunks)
       /\ \A k \in 1..Len(chunks) :
            /\ llmCalls[k].chunk = k - 1
            /\ formattedChunks[k] =
                 IF Failed(k) THEN ErrorText(k - 1, chunks[k])
                 ELSE llmResults[k].content

\* a finished run of three or more chunks whose first call failed and whose
\* last call succeeded
C6_Witness ==
  /\ pc = "done"
  /\ Len(chunks) >= 3
  /\ Failed(1)
  /\ ~Failed(Len(chunks))

\* C7: the placeholder of a failed chunk holds the chunk's raw text
\* verbatim; when every chunk's transform fails, formatTranscription returns
\* a document made only of placeholders whose raw texts, read in order,
\* concatenate to the original document.
C7_PlaceholdersKeepDocument ==
  /\ \A k \in 1..Len(llmResults) :
       Failed(k) => RawInside(formattedChunks[k], k) = chunks[k]
  /\ (pc = "done" /\ AllFailed) =>
       /\ result = Join(formattedChunks, Divider)
       /\ Flatten([k \in 1..Len(chunks) |-> RawInside(formattedChunks[k], k)])
            = text

\* C8: for every chunk index and every overlap size >= 0 the context strings
\* are no longer than the overlap size and no longer than the neighbour they
\* are taken from.
C8_OverlapBounded ==
  pc = "await" =>
    /\ Len(overlapBefore) <= overlapSize
    /\ Len(overlapAfter) <= overlapSize
    /\ i > 0 => Len(overlapBefore) <= Len(chunks[i])
    /\ i < Len(chunks) - 1 => Len(overlapAfter) <= Len(chunks[i + 2])

\* the result of chunk number k as the transform results and the raw text of
\* the chunk determine it
ResultOf(k) ==
  IF Failed(k) THEN ErrorText(k - 1, chunks[k]) ELSE llmResults[k].content

\* C9: the returned document is a function of the transform results and,
\* for failed chunks, of the chunk's raw text; the context strings and the
\* overlap size do not enter it, so runs that differ only in them return the
\* same document.
C9_OutputIgnoresOverlap ==
  pc = "done" =>
    result = Join([k \in 1..Len(chunks) |-> ResultOf(k)],
                  IF Len(chunks) > 1 THEN Divider ELSE <<>>)

\* a finished run in which a non-empty context string was built for the
\* last chunk, one call succeeded and one failed
C9_Witness ==
  /\ pc = "done"
  /\ Len(chunks) >= 2
  /\ overlapBefore # <<>>
  /\ \E k \in 1..Len(chunks) : Failed(k)
  /\ \E k \in 1..Len(chunks) : ~Failed(k)

\* C10: 'before' is a suffix of chunk i-1 and empty for the first chunk,
\* 'after' is a prefix of chunk i+1 and empty for the last chunk, and the
\* steps of the loop leave the chunk sequence as splitIntoChunks returned it.
C10_OverlapFromNeighbours ==
  [][ /\ pc # "split" => chunks' = chunks
      /\ pc' = "await" =>
           /\ IF i' = 0 THEN overlapBefore' = <<>>
              ELSE IsSuffix(overlapBefore', chunks'[i'])
           /\ IF i' = Len(chunks') - 1 THEN overlapAfter' = <<>>
              ELSE IsPrefix(overlapAfter', chunks'[i' + 2]) ]_vars

\* a call for a chunk with two neighbours whose context strings are not
\* empty and are not a suffix or a prefix of the chunk itself
C10_Witness ==
  /\ pc = "await"
  /\ i > 0 /\ i < Len(chunks) - 1
  /\ overlapBefore # <<>> /\ overlapAfter # <<>>
  /\ ~IsSuffix(overlapBefore, chunks[i + 1])
  /\ ~IsPrefix(overlapAfter, chunks[i + 1])

\* the numbers of the chunks whose transform failed
FailedChunks == { k \in 1..Len(llmResults) : Failed(k) }

\* C20: when the transform of one or more chunks fails, the run surfaces an
\* aggregate warning that lists exactly the numbers of the failed chunks, and
\* it is never reported as having formatted all chunks successfully.
C20_AggregateWarning ==
  (pc = "done" /\ FailedChunks # {}) =>
    /\ \E n \in 1..Len(consoleLog) :
         consoleLog[n].level = "warn" /\ consoleLog[n].chunks = FailedChunks
    /\ \A n \in 1..Len(consoleLog) : consoleLog[n].msg # "all_formatted"

(***************************************************************************)
(* parseTopics, server.js:119-175.                                         *)
(***************************************************************************)
\* the documents given to parseTopics have at most MaxTopicLines lines
MaxTopicLines == 3

\* the characters String.prototype.trim removes
WhiteSpace == {" ", NL, "\t", "\r"}
AsciiUpper == <<"A", "B", "C", "D", "E", "F", "G", "H", "I", "J", "K", "L", "M",
                "N", "O", "P", "Q", "R", "S", "T", "U", "V", "W", "X", "Y", "Z">>
AsciiLower == <<"a", "b", "c", "d", "e", "f", "g", "h", "i", "j", "k", "l", "m",
                "n", "o", "p", "q", "r", "s", "t", "u", "v", "w", "x", "y", "z">>
\* the class [a-z0-9] of the id pattern
IdChars == { AsciiLower[n] : n \in 1..26 }
             \cup {"0", "1", "2", "3", "4", "5", "6", "7", "8", "9"}

RECURSIVE SplitLines(_)
\* markdownContent.split('\n')
SplitLines(s) ==
  IF \A k \in 1..Len(s) : s[k] # NL THEN <<s>>
  ELSE LET k == CHOOSE n \in 1..Len(s) : s[n] = NL /\ \A m \in 1..(n - 1) : s[m] # NL
       IN  <<SubSeq(s, 1, k - 1)>> \o SplitLines(SubSeq(s, k + 1, Len(s)))

RECURSIVE TrimStart(_)
TrimStart(s) == IF s # <<>> /\ Head(s) \in WhiteSpace THEN TrimStart(Tail(s)) ELSE s

RECURSIVE TrimEnd(_)
TrimEnd(s) ==
  IF s # <<>> /\ s[Len(s)] \in WhiteSpace THEN TrimEnd(SubSeq(s, 1, Len(s) - 1)) ELSE s

\* String.prototype.trim
Trim(s) == TrimEnd(TrimStart(s))

\* line.startsWith(prefix)
StartsWith(line, prefix) ==
  Len(line) >= Len(prefix) /\ SubSeq(line, 1, Len(prefix)) = prefix

\* server.js:129, the test for a level 2 header
HeadingMarker == <<"#", "#", " ">>
IsHeading(line) == StartsWith(line, HeadingMarker)

\* line.substring(start)
Substring(s, begin) == SubSeq(s, Min(begin, Len(s)) + 1, Len(s))

\* String.prototype.toLowerCase on one character
LowerChar(c) ==
  IF \E n \in 1..26 : AsciiUpper[n] = c
  THEN AsciiLower[CHOOSE n \in 1..26 : AsciiUpper[n] = c]
  ELSE c

\* String.prototype.toLowerCase
ToLowerCase(s) == [k \in 1..Len(s) |-> LowerChar(s[k])]

RECURSIVE ReplaceEachNonIdChar(_)
\* replace(/[^a-z0-9]/g, '-'): one hyphen for every character outside the class
ReplaceEachNonIdChar(s) ==
  IF s = <<>> THEN <<>>
  ELSE (IF Head(s) \in IdChars THEN <<Head(s)>> ELSE <<"-">>)
       \o ReplaceEachNonIdChar(Tail(s))

RECURSIVE ReplaceNonIdRuns(_)
\* replace(/[^a-z0-9]+/g, '-'): one hyphen for every maximal run of
\* characters outside the class
ReplaceNonIdRuns(s) ==
  IF s = <<>> THEN <<>>
  ELSE IF Head(s) \in IdChars THEN <<Head(s)>> \o ReplaceNonIdRuns(Tail(s))
  ELSE IF Len(s) > 1 /\ s[2] \notin IdChars THEN ReplaceNonIdRuns(Tail(s))
  ELSE <<"-">> \o ReplaceNonIdRuns(Tail(s))

\* replace(/^-|-$/g, ''): a hyphen at the start and a hyphen at the end are
\* removed; the hyphen of "-" is matched once, by the first alternative
StripEdgeHyphens(s) ==
  LET front == IF s # <<>> /\ Head(s) = "-" THEN Tail(s) ELSE s
  IN  IF front # <<>> /\ front[Len(front)] = "-"
      THEN SubSeq(front, 1, Len(front) - 1)
      ELSE front

\* server.js:142, the id of a topic
TopicId(title) == StripEdgeHyphens(ReplaceNonIdRuns(ToLowerCase(title)))

\* server.js:139, the title of a header line
TitleOf(line) == Trim(Substring(line, 3))

\* ContentOf without the header line the topic started with
ContentAfterHeader(ls) ==
  Trim(Join(IF ls # <<>> /\ IsHeading(ls[1]) THEN Tail(ls) ELSE ls, <<NL>>))

\* server.js:133 and 170: content of the topic that is closed
ContentOf(ls) == Trim(Join(ls, <<NL>>))

Introduction == <<"I", "n", "t", "r", "o", "d", "u", "c", "t", "i", "o", "n">>
introduction == <<"i", "n", "t", "r", "o", "d", "u", "c", "t", "i", "o", "n">>

\* the lines the documents are made of
TopicLines ==
  { <<>>, <<" ">>, <<"a">>, <<" ", "a">>,
    <<"#", "#", " ", "a">>, <<"#", "#", " ", "a", " ">>, <<"#", "#", " ">>,
    <<"#", "#", "a">>, <<"#", "#", "#", " ", "a">>, <<" ", "#", "#", " ", "a">>,
    <<"#", "#", " ", "A", " ", "&", " ", "0">>, <<"#", "#", " ", "-", "a", "-">>,
    <<"#", "#", " ", "a", "-", "-", "B">>, <<"#", "#", " ", "&">> }

RECURSIVE LineSeqs(_)
\* the sequences of at most n lines
LineSeqs(n) ==
  IF n = 0 THEN { <<>> }
  ELSE LET shorter == LineSeqs(n - 1)
       IN  shorter \cup { ls \o <<l>> : ls \in shorter, l \in TopicLines }

\* utils.test.js:276
TestHeading ==
  <<"#", "#", " ", "T", "e", "c", "h", "n", "i", "c", "a", "l", " ",
    "B", "a", "c", "k", "g", "r", "o", "u", "n", "d", " ", "&", " ",
    "E", "x", "p", "e", "r", "i", "e", "n", "c", "e">>

MarkdownDocuments == { Join(ls, <<NL>>) : ls \in LineSeqs(MaxTopicLines) } \cup {TestHeading}

\* const lines = markdownContent.split('\n')
lines == SplitLines(markdownContent)

\* topics.push({...currentTopic, content: ...})
Closed(topic, ls) ==
  [title |-> topic.title, id |-> topic.id, startLine |-> topic.startLine,
   content |-> ContentOf(ls)]

\* server.js:119-123
InitTopics ==
  /\ markdownContent \in MarkdownDocuments
  /\ lineIdx = 0
  /\ currentTopic = NoTopic
  /\ currentContent = <<>>
  /\ topics = <<>>
  /\ tpc = "loop"
  /\ text = <<>> /\ targetChunkSize = 0 /\ overlapSize = 0
  /\ Start
  /\ AgentIdle
  /\ LaterIdle

\* HeaderLine that does not close the topic that was open
HeaderLineDropsOpen ==
  /\ tpc = "loop" /\ lineIdx < Len(lines)
  /\ LET line == lines[lineIdx + 1]
         title == TitleOf(line)
     IN  /\ IsHeading(line)
         /\ currentTopic' = [title |-> title, id |-> TopicId(title),
                             startLine |-> lineIdx + 1]
         /\ currentContent' = <<line>>
  /\ lineIdx' = lineIdx + 1
  /\ UNCHANGED <<markdownContent, topics, tpc, splitVars, formatVars, pc,
                 agentVars, laterVars>>

\* server.js:129-144, a level 2 header closes the topic before it and opens
\* its own
HeaderLine ==
  /\ tpc = "loop" /\ lineIdx < Len(lines)
  /\ LET line == lines[lineIdx + 1]
         title == TitleOf(line)
     IN  /\ IsHeading(line)
         /\ topics' = IF currentTopic # NoTopic
                      THEN Append(topics, Closed(currentTopic, currentContent))
                      ELSE topics
         /\ currentTopic' = [title |-> title, id |-> TopicId(title),
                             startLine |-> lineIdx + 1]
         /\ currentContent' = <<line>>
  /\ lineIdx' = lineIdx + 1
  /\ UNCHANGED <<markdownContent, tpc, splitVars, formatVars, pc,
                 agentVars, laterVars>>

\* server.js:145-147, any other line while a topic is open
TopicLine ==
  /\ tpc = "loop" /\ lineIdx < Len(lines)
  /\ ~IsHeading(lines[lineIdx + 1])
  /\ currentTopic # NoTopic
  /\ currentContent' = Append(currentContent, lines[lineIdx + 1])
  /\ lineIdx' = lineIdx + 1
  /\ UNCHANGED <<markdownContent, currentTopic, topics, tpc, splitVars, formatVars, pc,
                 agentVars, laterVars>>

\* PreambleLine that numbers the Introduction by the line that opened it
PreambleLineNumbered ==
  /\ tpc = "loop" /\ lineIdx < Len(lines)
  /\ ~IsHeading(lines[lineIdx + 1])
  /\ currentTopic = NoTopic
  /\ Len(topics) = 0 /\ Trim(lines[lineIdx + 1]) # <<>>
  /\ currentTopic' = [title |-> Introduction, id |-> introduction,
                      startLine |-> lineIdx + 1]
  /\ currentContent' = <<lines[lineIdx + 1]>>
  /\ lineIdx' = lineIdx + 1
  /\ UNCHANGED <<markdownContent, topics, tpc, splitVars, formatVars, pc,
                 agentVars, laterVars>>

\* server.js:148-161, the first non-blank line before any header opens the
\* Introduction topic
PreambleLine ==
  /\ tpc = "loop" /\ lineIdx < Len(lines)
  /\ ~IsHeading(lines[lineIdx + 1])
  /\ currentTopic = NoTopic
  /\ Len(topics) = 0 /\ Trim(lines[lineIdx + 1]) # <<>>
  /\ currentTopic' = [title |-> Introduction, id |-> introduction, startLine |-> 1]
  /\ currentContent' = <<lines[lineIdx + 1]>>
  /\ lineIdx' = lineIdx + 1
  /\ UNCHANGED <<markdownContent, topics, tpc, splitVars, formatVars, pc,
                 agentVars, laterVars>>

\* server.js:148-150, a blank line before any topic is skipped
BlankLine ==
  /\ tpc = "loop" /\ lineIdx < Len(lines)
  /\ ~IsHeading(lines[lineIdx + 1])
  /\ currentTopic = NoTopic
  /\ ~(Len(topics) = 0 /\ Trim(lines[lineIdx + 1]) # <<>>)
  /\ lineIdx' = lineIdx + 1
  /\ UNCHANGED <<markdownContent, currentTopic, currentContent, topics, tpc,
                 splitVars, formatVars, pc,
                 agentVars, laterVars>>

\* server.js:166-174, the last topic is closed and the list returned
SaveLast ==
  /\ tpc = "loop" /\ lineIdx = Len(lines)
  /\ topics' = IF currentTopic # NoTopic
               THEN Append(topics, Closed(currentTopic, currentContent))
               ELSE topics
  /\ tpc' = "done"
  /\ UNCHANGED <<markdownContent, lineIdx, currentTopic, currentContent,
                 splitVars, formatVars, pc,
                 agentVars, laterVars>>

NextTopics == HeaderLine \/ TopicLine \/ PreambleLine \/ BlankLine \/ SaveLast

SpecTopics == InitTopics /\ [][NextTopics]_vars

(***************************************************************************)
(* Claims about parseTopics.  The helpers below read the document, not     *)
(* the variables of the loop.                                              *)
(***************************************************************************)
\* a line that is a level 2 heading: "## " and the title
LevelTwo(line) == Len(line) >= 3 /\ line[1] = "#" /\ line[2] = "#" /\ line[3] = " "
Blank(line) == \A k \in 1..Len(line) : line[k] \in WhiteSpace
\* the line numbers (from 1) of the headings of the document, in order
Headings == SelectSeq([k \in 1..Len(lines) |-> k], LAMBDA k : LevelTwo(lines[k]))
\* the line number of the first heading, past the end when there is none
FirstHeading == IF Headings = <<>> THEN Len(lines) + 1 ELSE Headings[1]
\* some non-blank line stands before the first heading
HasPreamble == \E k \in 1..(FirstHeading - 1) : ~Blank(lines[k])
\* the line numbers where the topics start: the first non-blank line of the
\* preamble, if any, and the headings
TopicStarts ==
  (IF HasPreamble
   THEN << CHOOSE k \in 1..(FirstHeading - 1) :
             ~Blank(lines[k]) /\ \A m \in 1..(k - 1) : Blank(lines[m]) >>
   ELSE <<>>) \o Headings
\* the lines from topic start number j up to the next start
LinesOfTopic(j) ==
  SubSeq(lines, TopicStarts[j],
         IF j < Len(TopicStarts) THEN TopicStarts[j + 1] - 1 ELSE Len(lines))

\* C11 as stated: a document with N level 2 headings and no content before
\* the first yields exactly N topics in heading order, and the content of
\* each begins with its own heading line.
C11_TopicPerHeading ==
  (tpc = "done" /\ ~HasPreamble) =>
    /\ Len(topics) = Len(Headings)
    /\ \A j \in 1..Len(topics) :
         /\ topics[j].startLine = Headings[j]
         /\ IsPrefix(lines[Headings[j]], topics[j].content)

\* C11 amended: a document with N level 2 headings and no content before the
\* first yields exactly N topics in heading order, and the content of each
\* begins with its own heading line less the white space at the end of
\* that line.
C11_TopicPerHeadingTrimmed ==
  (tpc = "done" /\ ~HasPreamble) =>
    /\ Len(topics) = Len(Headings)
    /\ \A j \in 1..Len(topics) :
         /\ topics[j].startLine = Headings[j]
         /\ topics[j].title = Trim(SubSeq(lines[Headings[j]], 4, Len(lines[Headings[j]])))
         /\ IsPrefix(TrimEnd(lines[Headings[j]]), topics[j].content)

\* two headings after a blank line; the first has white space at its end and
\* nothing after it in its topic, the second stands in its content as it is
C11_Witness ==
  /\ tpc = "done" /\ ~HasPreamble
  /\ Len(Headings) = 2 /\ Headings[1] = 2
  /\ Len(topics) = 2
  /\ ~IsPrefix(lines[Headings[1]], topics[1].content)
  /\ IsPrefix(lines[Headings[2]], topics[2].content)

\* C12: the contents of the topics, in order, reproduce the document: every
\* line from the first non-blank line on belongs to exactly one topic, in
\* document order, none dropped and none twice; a content differs from its
\* lines joined by newlines only in the white space and blank lines trimmed
\* at its start and end.
C12_ContentsReproduceDocument ==
  tpc = "done" =>
    /\ Len(topics) = Len(TopicStarts)
    /\ \A j \in 1..Len(topics) :
         topics[j].content = Trim(Join(LinesOfTopic(j), <<NL>>))

\* a preamble and a heading, each followed by a line of its own, with a blank
\* line trimmed between the topics
C12_Witness ==
  /\ tpc = "done" /\ HasPreamble
  /\ Len(topics) = 2 /\ Len(lines) = 3
  /\ \E j \in 1..2 : Len(LinesOfTopic(j)) = 2
  /\ \E j \in 1..2 : topics[j].content # Join(LinesOfTopic(j), <<NL>>)

\* C13 as stated: with a non-blank line before the first heading the first
\* topic is {title 'Introduction', id 'introduction', startLine 1}, it holds
\* the preamble and contains no heading line; a document without headings
\* and with non-blank content yields exactly that one topic, holding the
\* whole document; without headings and without non-blank content the list
\* is empty.
C13_Introduction ==
  tpc = "done" =>
    /\ HasPreamble =>
         /\ topics # <<>>
         /\ topics[1].title = Introduction
         /\ topics[1].id = introduction
         /\ topics[1].startLine = 1
         /\ topics[1].content = Trim(Join(SubSeq(lines, 1, FirstHeading - 1), <<NL>>))
         /\ \A l \in 1..Len(SplitLines(topics[1].content)) :
              ~LevelTwo(SplitLines(topics[1].content)[l])
    /\ (HasPreamble /\ Headings = <<>>) =>
         /\ Len(topics) = 1
         /\ topics[1].content = Trim(markdownContent)
    /\ (~HasPreamble /\ Headings = <<>>) => topics = <<>>

\* C13 amended: as stated, but instead of holding no heading line at all the
\* Introduction holds none of the document's headings: the topic after it
\* starts at the first heading.  (Its content is the trimmed preamble, so a
\* first preamble line that reads '## ...' behind white space stands in it
\* without that white space.)
C13_IntroductionOfPreamble ==
  tpc = "done" =>
    /\ HasPreamble =>
         /\ topics # <<>>
         /\ topics[1].title = Introduction
         /\ topics[1].id = introduction
         /\ topics[1].startLine = 1
         /\ topics[1].content = Trim(Join(SubSeq(lines, 1, FirstHeading - 1), <<NL>>))
         /\ Headings # <<>> => Len(topics) > 1 /\ topics[2].startLine = FirstHeading
         /\ Headings = <<>> => Len(topics) = 1
    /\ (HasPreamble /\ Headings = <<>>) =>
         /\ Len(topics) = 1
         /\ topics[1].content = Trim(markdownContent)
    /\ (~HasPreamble /\ Headings = <<>>) => topics = <<>>

\* a blank line, a preamble line, then a heading
C13_Witness ==
  /\ tpc = "done" /\ HasPreamble
  /\ Len(lines) = 3 /\ Blank(lines[1]) /\ Headings = <<3>>
  /\ Len(topics) = 2 /\ topics[1].title = Introduction

RECURSIVE IdRun(_)
\* the length of the longest prefix of s made of characters of [a-z0-9]
IdRun(s) == IF s # <<>> /\ Head(s) \in IdChars THEN 1 + IdRun(Tail(s)) ELSE 0

RECURSIVE Words(_)
\* the maximal runs of characters of [a-z0-9] in s, in order
Words(s) ==
  IF s = <<>> THEN <<>>
  ELSE IF Head(s) \notin IdChars THEN Words(Tail(s))
  ELSE <<SubSeq(s, 1, IdRun(s))>> \o Words(SubSeq(s, IdRun(s) + 1, Len(s)))

\* the topics pushed and the topic that is open
TopicsSoFar ==
  { topics[j] : j \in 1..Len(topics) }
    \cup (IF currentTopic = NoTopic THEN {} ELSE {currentTopic})

TestTitle == SubSeq(TestHeading, 4, Len(TestHeading))
TestId ==
  <<"t", "e", "c", "h", "n", "i", "c", "a", "l", "-",
    "b", "a", "c", "k", "g", "r", "o", "u", "n", "d", "-",
    "e", "x", "p", "e", "r", "i", "e", "n", "c", "e">>

MaxFiles == 2

\* server.js:48, RAG_TOP_K (default 3), scaled down with the index
RAG_TOP_K == 2

RECURSIVE ParseLoop(_, _, _, _, _)
\* the loop of parseTopics from line number n on
ParseLoop(ls, n, cur, cc, ts) ==
  IF n > Len(ls)
  THEN IF cur # NoTopic THEN Append(ts, Closed(cur, cc)) ELSE ts
  ELSE LET line == ls[n]
       IN  IF IsHeading(line)
           THEN ParseLoop(ls, n + 1,
                          [title |-> TitleOf(line), id |-> TopicId(TitleOf(line)),
                           startLine |-> n],
                          <<line>>,
                          IF cur # NoTopic THEN Append(ts, Closed(cur, cc)) ELSE ts)
           ELSE IF cur # NoTopic
           THEN ParseLoop(ls, n + 1, cur, Append(cc, line), ts)
           ELSE IF Len(ts) = 0 /\ Trim(line) # <<>>
           THEN ParseLoop(ls, n + 1,
                          [title |-> Introduction, id |-> introduction, startLine |-> 1],
                          <<line>>, ts)
           ELSE ParseLoop(ls, n + 1, cur, cc, ts)

\* parseTopics as a function of its argument
parseTopics(content) == ParseLoop(SplitLines(content), 1, NoTopic, <<>>, <<>>)

\* filename.endsWith(suffix)
EndsWith(s, suffix) ==
  Len(s) >= Len(suffix) /\ SubSeq(s, Len(s) - Len(suffix) + 1, Len(s)) = suffix

FileA ==
  <<"a", ".", "m", "d">>
FileB ==
  <<"b", ".", "m", "d">>
FileN ==
  <<"n", ".", "t", "x", "t">>
FileNames == {FileA, FileB, FileN}
MdSuffix ==
  <<".", "m", "d">>

\* document contents: two topics; the same document after an edit that
\* removed the first topic
DocTwoTopics ==
  <<"#", "#", " ", "a", "\n", "x", "\n", "\n", "#", "#", " ", "b", "\n",
    "y">>
DocEdited ==
  <<"p", "\n", "#", "#", " ", "b">>

OnDisk(content) == [exists |-> TRUE, content |-> content]
Missing == [exists |-> FALSE, content |-> <<>>]
Disks ==
  { [f \in FileNames |-> OnDisk(DocTwoTopics)],
    [f \in FileNames |-> IF f = FileA THEN OnDisk(DocEdited) ELSE OnDisk(DocTwoTopics)],
    [f \in FileNames |-> IF f = FileA THEN Missing ELSE OnDisk(DocTwoTopics)] }

\* the topic ids an entry of the selection can hold: none, one that is
\* stale after the edit, two
TopicIdSets == { <<>>, <<<<"a">>>>, <<<<"b">>, <<"a">>>> }

RECURSIVE SelectionsOf(_)
\* the selection Maps with at most n keys
SelectionsOf(n) ==
  IF n = 0 THEN { <<>> }
  ELSE LET shorter == SelectionsOf(n - 1)
       IN  shorter \cup
           { sel \o <<[file |-> f, topics |-> t]>> :
               sel \in { x \in shorter : Len(x) = n - 1 },
               f \in FileNames, t \in TopicIdSets }

Selections ==
  { sel \in SelectionsOf(MaxFiles) :
      \A j, k \in 1..Len(sel) : sel[j].file = sel[k].file => j = k }

\* app-topics-addon.js:150-160, one entry of the Map as an element of files
FileSpecOf(entry) ==
  IF Len(entry.topics) = 0
  THEN [isObject |-> FALSE, file |-> entry.file, topicIds |-> <<>>]
  ELSE [isObject |-> TRUE, file |-> entry.file, topicIds |-> entry.topics]

\* app-topics-addon.js:141-163
getSelectedFilesForAPI(sel) == [k \in 1..Len(sel) |-> FileSpecOf(sel[k])]

\* the entries of the index, with the similarity of each to the query
StoreDoc(content, source, topic, score) ==
  [content |-> content, metadata |-> [source |-> source, topic |-> topic],
   score |-> score]
OneEntry == <<StoreDoc(<<"r">>, FileA, <<"a">>, 1)>>
ThreeEntries ==
  <<StoreDoc(<<"r">>, FileA, <<"a">>, 1), StoreDoc(<<"s">>, FileB, <<>>, 2),
    StoreDoc(<<"t">>, FileN, <<>>, 1)>>

\* the route, the request's useRAG, RAG_ENABLED (server.js:47) and the index
RagSetting(route, use, enabled, store) ==
  [endpoint |-> route, useRAG |-> use, enabled |-> enabled, store |-> store]
RagSettings ==
  { RagSetting("/api/prompt", FALSE, TRUE, ThreeEntries),
    RagSetting("/api/run-agent", FALSE, TRUE, ThreeEntries),
    RagSetting("/api/run-agent", TRUE, FALSE, ThreeEntries),
    RagSetting("/api/run-agent", TRUE, TRUE, <<>>),
    RagSetting("/api/run-agent", TRUE, TRUE, OneEntry),
    RagSetting("/api/run-agent", TRUE, TRUE, ThreeEntries) }

FileHeader ==
  <<"\n", "\n", "-", "-", "-", " ", "F", "i", "l", "e", ":", " ">>
TopicsOpen ==
  <<" ", "(", "T", "o", "p", "i", "c", "s", ":", " ">>
TopicsClose ==
  <<")", " ", "-", "-", "-", "\n", "\n">>
HeaderClose ==
  <<" ", "-", "-", "-", "\n", "\n">>
BlankLineSep ==
  <<"\n", "\n">>
CommaSep ==
  <<",", " ">>

\* topics.filter(t => topicIds.includes(t.id))
SelectedTopics(content, topicIds) ==
  SelectSeq(parseTopics(content),
            LAMBDA t : \E k \in 1..Len(topicIds) : topicIds[k] = t.id)

\* server.js:1460, the block of a whole file
WholeFileBlock(filename, content) == FileHeader \o filename \o HeaderClose \o content

\* server.js:1454-1456, the block of the selected topics
TopicsBlock(filename, selected) ==
  FileHeader \o filename \o TopicsOpen
    \o Join([k \in 1..Len(selected) |-> selected[k].title], CommaSep)
    \o TopicsClose
    \o Join([k \in 1..Len(selected) |-> selected[k].content], BlankLineSep)

\* FileBlock that returns the topics block also when no topic was selected
FileBlockOfTopicsOnly(fileSpec, content) ==
  LET filename == fileSpec.file
      topicIds == IF fileSpec.isObject THEN fileSpec.topicIds ELSE <<>>
  IN  IF Len(topicIds) > 0 /\ EndsWith(filename, MdSuffix)
      THEN TopicsBlock(filename, SelectedTopics(content, topicIds))
      ELSE WholeFileBlock(filename, content)

\* server.js:1442-1461 (and 905-930), what the callback of files.map returns
\* once the file is read
FileBlock(fileSpec, content) ==
  LET filename == fileSpec.file
      topicIds == IF fileSpec.isObject THEN fileSpec.topicIds ELSE <<>>
  IN  IF Len(topicIds) > 0 /\ EndsWith(filename, MdSuffix)
         /\ Len(SelectedTopics(content, topicIds)) > 0
      THEN TopicsBlock(filename, SelectedTopics(content, topicIds))
      ELSE WholeFileBlock(filename, content)

RECURSIVE SortByScore(_)
\* scored.sort((a, b) => b.score - a.score): descending, stable
SortByScore(docs) ==
  IF docs = <<>> THEN <<>>
  ELSE LET rest == SortByScore(Tail(docs))
           before == SelectSeq(rest, LAMBDA d : d.score > Head(docs).score)
           after == SelectSeq(rest, LAMBDA d : d.score <= Head(docs).score)
       IN  before \o <<Head(docs)>> \o after

\* server.js:428-452 when the embedder answers
searchRAG(store, topK) ==
  IF Len(store) = 0 THEN <<>>
  ELSE SubSeq(SortByScore(store), 1, Min(topK, Len(store)))

RagOpen ==
  <<"[", "R", "A", "G", " ", "C", "o", "n", "t", "e", "x", "t", " ">>
RagSource ==
  <<"]", " ", "(", "S", "o", "u", "r", "c", "e", ":", " ">>
RagTopic ==
  <<",", " ", "T", "o", "p", "i", "c", ":", " ">>
RagClose ==
  <<")", "\n">>
RagSep ==
  <<"\n", "\n", "-", "-", "-", "\n", "\n">>
FilesDivider ==
  <<"\n", "\n", "-", "-", "-", " ", "S", "e", "l", "e", "c", "t", "e", "d",
    " ", "F", "i", "l", "e", "s", " ", "C", "o", "n", "t", "e", "x", "t",
    " ", "-", "-", "-", "\n", "\n">>

\* server.js:1476-1477, the block of the passage at index idx
RagBlock(r, idx) ==
  RagOpen \o NumberToString(idx + 1) \o RagSource \o r.metadata.source
    \o (IF r.metadata.topic # <<>> THEN RagTopic \o r.metadata.topic ELSE <<>>)
    \o RagClose \o r.content

ragContext(found) == Join([k \in 1..Len(found) |-> RagBlock(found[k], k - 1)], RagSep)

\* server.js:1475-1486, contextText after the search
WithRag(found, context) ==
  IF Len(found) > 0
  THEN ragContext(found) \o (IF context # <<>> THEN FilesDivider \o context ELSE <<>>)
  ELSE context

PromptContent == <<"P">>

\* a request arrives: the browser sends its selection
InitAgent ==
  /\ selectedFiles \in Selections
  /\ files = getSelectedFilesForAPI(selectedFiles)
  /\ disk \in Disks
  /\ \E rs \in RagSettings :
       /\ endpoint = rs.endpoint /\ useRAG = rs.useRAG
       /\ ragEnabled = rs.enabled /\ vectorStore = rs.store
  /\ artifacts \in { {}, {1, 3} }
  /\ pending = {}
  /\ completed = <<>>
  /\ fileContents = <<>>
  /\ contextText = <<>>
  /\ ragResults = <<>>
  /\ nextVersion = 0
  /\ prompts = <<>>
  /\ written = <<>>
  /\ response = NoResponse
  /\ apc = "start"
  /\ text = <<>> /\ targetChunkSize = 0 /\ overlapSize = 0
  /\ Start
  /\ TopicsIdle
  /\ LaterIdle

\* server.js:1441-1447, files.map starts one callback per file; each runs
\* up to its await of fs.readFile
StartReads ==
  /\ apc = "start" /\ Len(files) > 0
  /\ pending' = 1..Len(files)
  /\ fileContents' = [k \in 1..Len(files) |-> <<>>]
  /\ apc' = "reading"
  /\ UNCHANGED <<nonAgentVars, requestVars, artifacts, completed, contextText, ragResults,
                 nextVersion, prompts, written, response>>

\* server.js:1440, no file was sent: contextText stays ''
NoFiles ==
  /\ apc = "start" /\ Len(files) = 0
  /\ apc' = "rag"
  /\ UNCHANGED <<nonAgentVars, requestVars, artifacts, pending, completed, fileContents,
                 contextText, ragResults, nextVersion, prompts, written, response>>

\* ReadOk that collects the blocks in the order the reads complete
ReadOkInCompletionOrder ==
  \E k \in pending :
    /\ apc = "reading"
    /\ disk[files[k].file].exists
    /\ fileContents' = [fileContents EXCEPT ![Len(completed) + 1] =
                           FileBlock(files[k], disk[files[k].file].content)]
    /\ pending' = pending \ {k}
    /\ completed' = Append(completed, k)
    /\ UNCHANGED <<nonAgentVars, requestVars, artifacts, contextText, ragResults, nextVersion,
                   prompts, written, response, apc>>

\* server.js:1447-1461, a read completes and its callback returns the block,
\* which Promise.all keeps at the index of the file
ReadOk ==
  \E k \in pending :
    /\ apc = "reading"
    /\ disk[files[k].file].exists
    /\ fileContents' = [fileContents EXCEPT ![k] =
                           FileBlock(files[k], disk[files[k].file].content)]
    /\ pending' = pending \ {k}
    /\ completed' = Append(completed, k)
    /\ UNCHANGED <<nonAgentVars, requestVars, artifacts, contextText, ragResults, nextVersion,
                   prompts, written, response, apc>>

\* ReadFails that takes the file as empty and goes on
ReadFailsSkipped ==
  \E k \in pending :
    /\ apc = "reading"
    /\ ~disk[files[k].file].exists
    /\ fileContents' = [fileContents EXCEPT ![k] = WholeFileBlock(files[k].file, <<>>)]
    /\ pending' = pending \ {k}
    /\ completed' = Append(completed, k)
    /\ UNCHANGED <<nonAgentVars, requestVars, artifacts, contextText, ragResults, nextVersion,
                   prompts, written, response, apc>>

\* server.js:1447 and 1587-1590, a read fails: Promise.all rejects and the
\* catch of the handler answers 500
ReadFails ==
  \E k \in pending :
    /\ apc = "reading"
    /\ ~disk[files[k].file].exists
    /\ pending' = pending \ {k}
    /\ completed' = Append(completed, k)
    /\ response' = [status |-> 500, error |-> "readFile"]
    /\ apc' = "responded"
    /\ UNCHANGED <<nonAgentVars, requestVars, artifacts, fileContents, contextText, ragResults,
                   nextVersion, prompts, written>>

\* server.js:1463, every read has completed
JoinFiles ==
  /\ apc = "reading" /\ pending = {}
  /\ contextText' = Join(fileContents, BlankLineSep)
  /\ apc' = "rag"
  /\ UNCHANGED <<nonAgentVars, requestVars, artifacts, pending, completed, fileContents,
                 ragResults, nextVersion, prompts, written, response>>

\* server.js:1467, the condition of the retrieval step; an array is truthy
RagRequested == endpoint = "/api/run-agent" /\ useRAG /\ ragEnabled

\* server.js:1467, no retrieval
SkipSearch ==
  /\ apc = "rag" /\ ~RagRequested
  /\ apc' = "version"
  /\ UNCHANGED <<nonAgentVars, requestVars, artifacts, pending, completed, fileContents,
                 contextText, ragResults, nextVersion, prompts, written, response>>

\* server.js:1467-1487, searchRAG returns
Search ==
  /\ apc = "rag" /\ RagRequested
  /\ ragResults' = searchRAG(vectorStore, RAG_TOP_K)
  /\ contextText' = WithRag(ragResults', contextText)
  /\ apc' = "version"
  /\ UNCHANGED <<nonAgentVars, requestVars, artifacts, pending, completed, fileContents,
                 nextVersion, prompts, written, response>>

\* server.js:434 and 1587-1590, the embedder rejects: searchRAG throws and
\* the catch of the handler answers 500
SearchThrows ==
  /\ apc = "rag" /\ RagRequested
  /\ Len(vectorStore) > 0
  /\ response' = [status |-> 500, error |-> "searchRAG"]
  /\ apc' = "responded"
  /\ UNCHANGED <<nonAgentVars, requestVars, artifacts, pending, completed, fileContents,
                 contextText, ragResults, nextVersion, prompts, written>>

\* Math.max(...existingVersions)
MaxOf(set) == CHOOSE n \in set : \A m \in set : m <= n

\* server.js:1489-1497 (and 935-943)
DetermineVersion ==
  /\ apc = "version"
  /\ nextVersion' = IF artifacts # {} THEN MaxOf(artifacts) + 1 ELSE 1
  /\ apc' = "invoke"
  /\ UNCHANGED <<nonAgentVars, requestVars, artifacts, pending, completed, fileContents,
                 contextText, ragResults, prompts, written, response>>

\* server.js:1531-1534, the prompt is the agent's text, a blank line and
\* the context
FullPrompt == PromptContent \o BlankLineSep \o contextText

\* server.js:1543-1554, llm.invoke answers
InvokeOk ==
  /\ apc = "invoke"
  /\ prompts' = Append(prompts, FullPrompt)
  /\ apc' = "save"
  /\ UNCHANGED <<nonAgentVars, requestVars, artifacts, pending, completed, fileContents,
                 contextText, ragResults, nextVersion, written, response>>

\* server.js:1543 and 1587-1590, llm.invoke rejects
InvokeFails ==
  /\ apc = "invoke"
  /\ prompts' = Append(prompts, FullPrompt)
  /\ response' = [status |-> 500, error |-> "llm.invoke"]
  /\ apc' = "responded"
  /\ UNCHANGED <<nonAgentVars, requestVars, artifacts, pending, completed, fileContents,
                 contextText, ragResults, nextVersion, written>>

\* server.js:1568-1572, the artifact is written
SaveArtifact ==
  /\ apc = "save"
  /\ written' = Append(written, [kind |-> "artifact", version |-> nextVersion])
  /\ artifacts' = artifacts \cup {nextVersion}
  /\ apc' = "meta"
  /\ UNCHANGED <<nonAgentVars, requestVars, pending, completed, fileContents, contextText,
                 ragResults, nextVersion, prompts, response>>

\* server.js:1574-1585, the metadata is written and the response sent
SaveMeta ==
  /\ apc = "meta"
  /\ written' = Append(written, [kind |-> "meta", version |-> nextVersion])
  /\ response' = [status |-> 200, error |-> "none"]
  /\ apc' = "responded"
  /\ UNCHANGED <<nonAgentVars, requestVars, artifacts, pending, completed, fileContents,
                 contextText, ragResults, nextVersion, prompts>>

NextAgent ==
  \/ StartReads \/ NoFiles \/ ReadOk \/ ReadFails \/ JoinFiles
  \/ SkipSearch \/ Search \/ SearchThrows
  \/ DetermineVersion \/ InvokeOk \/ InvokeFails \/ SaveArtifact \/ SaveMeta

SpecAgent == InitAgent /\ [][NextAgent]_vars

(***************************************************************************)
(* Claims about the context assembly.                                      *)
(***************************************************************************)
\* the file at index k of the request and what the disk holds for it
NameOf(k) == files[k].file
StoredAt(k) == disk[NameOf(k)]
\* some selected document cannot be loaded
SomeMissing == \E k \in 1..Len(files) : ~StoredAt(k).exists
\* the ids of the topics the document at index k has now
CurrentIds(k) ==
  { parseTopics(StoredAt(k).content)[n].id :
      n \in 1..Len(parseTopics(StoredAt(k).content)) }
\* topic ids were requested for the file at index k and none of them is the
\* id of a topic of the document
Stale(k) ==
  /\ files[k].isObject /\ Len(files[k].topicIds) > 0
  /\ \A n \in 1..Len(files[k].topicIds) : files[k].topicIds[n] \notin CurrentIds(k)
\* the read of the file at index k has completed and its block is there
Loaded(k) == apc # "start" /\ k \notin pending /\ StoredAt(k).exists
\* the blocks of the files of a request, in the order of the request
FilesPartOf(fs) ==
  Join([k \in 1..Len(fs) |-> FileBlock(fs[k], disk[fs[k].file].content)], BlankLineSep)
FilesPart == FilesPartOf(files)
\* the retrieved passages, in the order the search returned them
PassagesPart == Join([k \in 1..Len(ragResults) |-> RagBlock(ragResults[k], k - 1)], RagSep)
\* the handler is past the retrieval step and has not failed
PastSearch == apc \in {"version", "invoke", "save", "meta"} \/ response.status = 200

\* C15: when topic ids are requested for a document and none of them matches
\* a topic of its current contents, its block is the whole document under
\* the plain header '--- File: name ---', not nothing.
C15_StaleIdsGiveWholeFile ==
  \A k \in 1..Len(files) :
    (Loaded(k) /\ Stale(k)) =>
      /\ fileContents[k] = FileHeader \o NameOf(k) \o HeaderClose \o StoredAt(k).content
      /\ apc = "rag" => contextText # <<>>

\* the request names a topic that the edited document no longer has, the
\* request has been answered and the block is the whole edited document
C15_Witness ==
  /\ response.status = 200
  /\ Len(files) = 1 /\ files[1].topicIds = <<<<"a">>>>
  /\ StoredAt(1).content = DocEdited /\ Stale(1)
  /\ fileContents[1] = FileHeader \o FileA \o HeaderClose \o DocEdited

\* the selection without its entry number j
WithoutKey(sel, j) == SubSeq(sel, 1, j - 1) \o SubSeq(sel, j + 1, Len(sel))

\* C16: for every document, the context assembled from a selection whose
\* entry for the document has an empty set of topic ids is identical to the
\* context assembled from the selection without the document's key.
C16_EmptySetIsOmission ==
  (apc = "rag" /\ ~SomeMissing) =>
    \A j \in 1..Len(selectedFiles) :
      selectedFiles[j].topics = <<>> =>
        contextText = FilesPartOf(getSelectedFilesForAPI(WithoutKey(selectedFiles, j)))

\* C17: the assembled context is determined by the request: the blocks of
\* the files stand in the order of the request's files whatever the order
\* in which the reads completed, the retrieved passages come first, in the
\* order of the search, and the 'Selected Files Context' divider stands
\* between the two parts exactly when both are non-empty.
C17_ContextDeterministic ==
  /\ apc = "rag" => contextText = FilesPart
  /\ PastSearch =>
       contextText = PassagesPart
                       \o (IF PassagesPart # <<>> /\ FilesPart # <<>>
                           THEN FilesDivider ELSE <<>>)
                       \o FilesPart
  /\ prompts # <<>> => prompts[1] = PromptContent \o BlankLineSep \o contextText

\* two files whose reads completed in the reverse order, two passages, the
\* divider between the passages and the files
C17_Witness ==
  /\ response.status = 200
  /\ completed = <<2, 1>>
  /\ Len(ragResults) = 2
  /\ contextText = PassagesPart \o FilesDivider \o FilesPart
  /\ FilesPart # FilesPartOf(<<files[2], files[1]>>)

\* C18: when the load of a selected document fails, the failure is the
\* error response, no read is tried again, no call to the model is made
\* and no artifact and no metadata is written.
C18_LoadFailurePropagates ==
  SomeMissing =>
    /\ prompts = <<>>
    /\ written = <<>>
    /\ apc \in {"start", "reading", "responded"}
    /\ apc = "responded" => response = [status |-> 500, error |-> "readFile"]
    /\ \A m, n \in 1..Len(completed) : completed[m] = completed[n] => m = n

\* two files, the read of the first succeeded, then the read of the second
\* failed and the request was answered with the error
C18_Witness ==
  /\ apc = "responded" /\ SomeMissing
  /\ completed = <<1, 2>>
  /\ StoredAt(1).exists /\ ~StoredAt(2).exists
  /\ response.status = 500

\* C19: when retrieval is requested and is absent (disabled, or an empty
\* index) or fails (the search throws), it counts as no passages and the
\* request still completes: the context is the files' part and the request
\* is not answered with the error of the search.
C19_RetrievalFailureIsNoPassages ==
  (endpoint = "/api/run-agent" /\ useRAG) =>
    /\ response.error # "searchRAG"
    /\ (PastSearch /\ (~ragEnabled \/ vectorStore = <<>>)) => contextText = FilesPart

(***************************************************************************)
(* Further claims about splitIntoChunks and formatTranscription.           *)
(***************************************************************************)
\* C21: for every target size, 0 included, a computed cut equal to the
\* cursor (an empty chunk) aborts the split with an error: splitIntoChunks
\* never returns normally with chunks that cover only a prefix of the
\* document.
C21_EmptyCutAborts ==
  pc = "split_done" => Flatten(chunks) = text

RECURSIVE Interleaved(_, _)
\* the strings of ss one after the other with sep between neighbours
Interleaved(ss, sep) ==
  IF Len(ss) = 1 THEN ss[1] ELSE ss[1] \o sep \o Interleaved(Tail(ss), sep)

\* C22: the result of formatTranscription is the per-chunk results (the
\* transform output, or the placeholder of the chunk) in chunk order, with
\* the divider '\n\n---\n\n' between neighbours when there is more than one
\* chunk, and the single result as it is, without divider, when there is
\* exactly one chunk.
C22_ResultIsJoinedChunks ==
  pc = "done" =>
    /\ Len(formattedChunks) = Len(chunks)
    /\ \A k \in 1..Len(chunks) :
         \/ llmResults[k].ok /\ formattedChunks[k] = llmResults[k].content
         \/ ~llmResults[k].ok /\ formattedChunks[k] = ErrorText(k - 1, chunks[k])
    /\ Len(chunks) > 1 =>
         result = Interleaved(formattedChunks, <<"\n", "\n", "-", "-", "-", "\n", "\n">>)
    /\ Len(chunks) = 1 => result = formattedChunks[1]

\* a finished run of two chunks, the first a placeholder, the second a
\* transform output, with the divider between them
C22_Witness ==
  /\ pc = "done"
  /\ Len(chunks) = 2
  /\ Failed(1) /\ ~Failed(2)
  /\ result = formattedChunks[1] \o <<"\n", "\n", "-", "-", "-", "\n", "\n">>
                \o formattedChunks[2]

\* C24: the transform is invoked for the chunks in chunk order and one at a
\* time: the call for a chunk is made only when the calls for all earlier
\* chunks have completed, by success or by failure.
C24_SequentialTransforms ==
  /\ \A k \in 1..Len(llmCalls) : llmCalls[k].chunk = k - 1
  /\ Len(llmResults) <= Len(llmCalls)
  /\ Len(llmCalls) <= Len(llmResults) + 1
  /\ Len(llmCalls) = Len(llmResults) + 1 <=> pc = "await"

\* the third call is in flight after the first succeeded and the second
\* failed
C24_Witness ==
  /\ pc = "await"
  /\ Len(llmCalls) = 3 /\ Len(llmResults) = 2
  /\ ~Failed(1) /\ Failed(2)

\* the last record of the telemetry
LastRecord == boundaryInfo[Len(boundaryInfo)]

\* C25 as stated: for every non-empty document and every S >= 1 the last
\* record of the telemetry has type 'end' and no earlier record has, also
\* when a natural boundary is found whose cut is the very end of the
\* document.
C25_LastRecordIsEnd ==
  (pc = "split_done" /\ text # <<>> /\ targetChunkSize >= 1) =>
    /\ boundaryInfo # <<>>
    /\ LastRecord.type = "end"
    /\ \A k \in 1..(Len(boundaryInfo) - 1) : boundaryInfo[k].type # "end"

\* C25 amended: for every non-empty document and every S >= 1 no record
\* before the last has type 'end', and the last record has type 'end'
\* exactly when its chunk was taken because cursor + S reached the end of
\* the document; when instead a cut at a natural boundary ended at the very
\* end of the document, the last record has the type of that boundary and no
\* record has type 'end'.
C25_EndOnlyForFinalChunk ==
  (pc = "split_done" /\ text # <<>> /\ targetChunkSize >= 1) =>
    /\ boundaryInfo # <<>>
    /\ LastRecord.end = Len(text)
    /\ \A k \in 1..(Len(boundaryInfo) - 1) : boundaryInfo[k].type # "end"
    /\ LastRecord.type = "end" <=> LastRecord.start + targetChunkSize >= Len(text)
    /\ LastRecord.type # "end" => LastRecord.type \in PatternNames

\* a split whose last cut, at a sentence end, is the end of the document:
\* no record has type 'end'
C25_Witness ==
  /\ pc = "split_done" /\ targetChunkSize >= 1
  /\ Len(boundaryInfo) >= 2
  /\ LastRecord.type = "sentence" /\ LastRecord.end = Len(text)
  /\ \A k \in 1..Len(boundaryInfo) : boundaryInfo[k].type # "end"

(***************************************************************************)
(* splitTextIntoChunks, server.js:326-339, the chunker of the retrieval    *)
(* index.                                                                  *)
(***************************************************************************)
\* texts have at most MaxRagLen characters, chunkSize ranges over
\* 1..MaxRagChunkSize, overlap over 0..MaxRagOverlap, and the loop is
\* followed for at most MaxRagChunks chunks
MaxRagLen == 4
MaxRagChunkSize == 3
MaxRagOverlap == 2
MaxRagChunks == 5

\* the variables of formatTranscription, parseTopics and the request handlers
coreVars == <<splitVars, formatVars, pc, topicVars, agentVars>>
CoreIdle ==
  /\ text = <<>> /\ targetChunkSize = 0 /\ overlapSize = 0
  /\ Start
  /\ TopicsIdle
  /\ AgentIdle

\* the variables splitTextIntoChunks leaves alone
notRagVars == <<coreVars, indexVars, batchVars, versionVars, browserVars>>

RECURSIVE RagTextsOf(_)
\* the texts of at most n characters
RagTextsOf(n) ==
  IF n = 0 THEN { <<>> }
  ELSE LET shorter == RagTextsOf(n - 1)
       IN  shorter \cup { t \o <<c>> : t \in shorter, c \in {"a", "b"} }

\* server.js:326-328
InitRag ==
  /\ ragText \in RagTextsOf(MaxRagLen)
  /\ chunkSize \in 1..MaxRagChunkSize
  /\ overlap \in 0..MaxRagOverlap
  /\ start = 0
  /\ ragChunks = <<>>
  /\ rpc = "loop"
  /\ CoreIdle
  /\ IndexIdle
  /\ BatchIdle
  /\ VersionsIdle
  /\ BrowserIdle

\* server.js:331, const end = Math.min(start + chunkSize, text.length)
RagEnd == Min(start + chunkSize, Len(ragText))

\* server.js:330-335, a chunk is pushed and the cursor steps back by overlap
RagChunkNext ==
  /\ rpc = "loop" /\ start < Len(ragText)
  /\ RagEnd < Len(ragText)
  /\ Len(ragChunks) < MaxRagChunks
  /\ ragChunks' = Append(ragChunks, Slice(ragText, start, RagEnd))
  /\ start' = RagEnd - overlap
  /\ UNCHANGED <<notRagVars, ragText, chunkSize, overlap, rpc>>

\* server.js:330-334 and 338, the chunk that reaches the end is pushed and
\* the chunks are returned
RagChunkLast ==
  /\ rpc = "loop" /\ start < Len(ragText)
  /\ RagEnd >= Len(ragText)
  /\ ragChunks' = Append(ragChunks, Slice(ragText, start, RagEnd))
  /\ rpc' = "done"
  /\ UNCHANGED <<notRagVars, ragText, chunkSize, overlap, start>>

\* server.js:330 and 338, the loop condition fails
RagExit ==
  /\ rpc = "loop" /\ start >= Len(ragText)
  /\ rpc' = "done"
  /\ UNCHANGED <<notRagVars, ragText, chunkSize, overlap, start, ragChunks>>

NextRag == RagChunkNext \/ RagChunkLast \/ RagExit

SpecRag == InitRag /\ [][NextRag]_vars

\* C29: splitTextIntoChunks terminates for every non-empty text, every
\* chunkSize >= 1 and every overlap >= 0: each iteration that goes on moves
\* the start cursor strictly forward, each chunk has at most chunkSize
\* characters, and a chunk begins with the last 'overlap' characters of the
\* chunk before it.
C29_CursorAdvances ==
  [][ (ragText # <<>> /\ rpc = "loop" /\ rpc' = "loop") =>
        /\ start' > start
        /\ Len(ragChunks') = Len(ragChunks) + 1
        /\ Len(ragChunks'[Len(ragChunks')]) <= chunkSize
        /\ Len(ragChunks) > 0 =>
             SubSeq(ragChunks'[Len(ragChunks')], 1, overlap)
               = SliceFrom(ragChunks[Len(ragChunks)], 0 - overlap) ]_vars

(***************************************************************************)
(* The retrieval index: chunkDocument (server.js:342-377), syncFilesToRAG  *)
(* (380-425), searchRAG (428-452), POST /api/rag/sync (1805-1821), POST    *)
(* /api/rag/search (1824-1839) and the auto-sync of startServer            *)
(* (1841-1857).                                                            *)
(***************************************************************************)
\* at most MaxSyncs calls of POST /api/rag/sync are followed
MaxSyncs == 2

\* RAG_CHUNK_SIZE and RAG_CHUNK_OVERLAP (server.js:49-50), scaled to the
\* documents of the model
RAG_CHUNK_SIZE == 4
RAG_CHUNK_OVERLAP == 1

RECURSIVE SplitTextFrom(_, _, _, _, _)
\* server.js:330-336, the loop from cursor 'from', followed for 'fuel' chunks
SplitTextFrom(t, size, ov, from, fuel) ==
  IF from >= Len(t) \/ fuel = 0 THEN <<>>
  ELSE LET end == Min(from + size, Len(t))
       IN  <<Slice(t, from, end)>> \o
           (IF end >= Len(t) THEN <<>>
            ELSE SplitTextFrom(t, size, ov, end - ov, fuel - 1))

\* server.js:326-339
splitTextIntoChunks(t, size, ov) == SplitTextFrom(t, size, ov, 0, MaxRagChunks)

\* server.js:351-360, the entries of one topic
TopicChunks(filename, topic) ==
  LET cs == splitTextIntoChunks(topic.content, RAG_CHUNK_SIZE, RAG_CHUNK_OVERLAP)
  IN  [k \in 1..Len(cs) |->
         [content |-> cs[k],
          metadata |-> [source |-> filename, topic |-> topic.title,
                        topicId |-> topic.id, chunkIndex |-> k - 1]]]

RECURSIVE ChunksOfTopics(_, _)
\* server.js:348-361, topics.forEach
ChunksOfTopics(filename, ts) ==
  IF ts = <<>> THEN <<>>
  ELSE TopicChunks(filename, Head(ts)) \o ChunksOfTopics(filename, Tail(ts))

\* server.js:342-377
chunkDocument(content, filename) ==
  IF Len(parseTopics(content)) > 0
  THEN ChunksOfTopics(filename, parseTopics(content))
  ELSE LET cs == splitTextIntoChunks(content, RAG_CHUNK_SIZE, RAG_CHUNK_OVERLAP)
       IN  [k \in 1..Len(cs) |->
              [content |-> cs[k],
               metadata |-> [source |-> filename, chunkIndex |-> k - 1]]]

FormattedPrefix ==
  <<"i", "n", "t", "e", "r", "v", "i", "e", "w", "_", "f", "o", "r", "m",
    "a", "t", "t", "e", "d", "_">>
RawPrefix ==
  <<"i", "n", "t", "e", "r", "v", "i", "e", "w", "_", "r", "a", "w", "_">>
TxtSuffix ==
  <<".", "t", "x", "t">>
FormattedA == FormattedPrefix \o <<"1">> \o MdSuffix
FormattedB == FormattedPrefix \o <<"2">> \o MdSuffix
RawA == RawPrefix \o <<"1">> \o TxtSuffix
IndexFiles == {FormattedA, FormattedB, RawA}

\* a document without a level 2 header
DocPlain ==
  <<"x", "y", "z", "w", "v">>

\* the transcriptions directory: both formatted files, one, none
IndexDisks ==
  { [f \in IndexFiles |-> IF f = FormattedB THEN OnDisk(DocPlain) ELSE OnDisk(DocTwoTopics)],
    [f \in IndexFiles |-> IF f = FormattedB THEN Missing ELSE OnDisk(DocTwoTopics)],
    [f \in IndexFiles |-> IF f = RawA THEN OnDisk(DocPlain) ELSE Missing] }

\* the bodies of POST /api/rag/sync
SyncRequests ==
  { <<>>, <<FormattedA>>, <<FormattedB>>, <<FormattedA, FormattedB>>, <<RawA>> }

RECURSIVE Synced(_, _)
\* server.js:390-417, the entries pushed for a list of file names: a file
\* that cannot be read is logged and skipped
Synced(filenames, dir) ==
  IF filenames = <<>> THEN <<>>
  ELSE (IF dir[Head(filenames)].exists
        THEN chunkDocument(dir[Head(filenames)].content, Head(filenames))
        ELSE <<>>)
       \o Synced(Tail(filenames), dir)

\* the number of files indexed, server.js:410
SyncedCount(filenames, dir) ==
  Cardinality({ k \in 1..Len(filenames) : dir[filenames[k]].exists })

\* server.js:1847, files.filter(f => f.startsWith('interview_formatted_') &&
\* f.endsWith('.md'))
IsFormatted(f) == StartsWith(f, FormattedPrefix) /\ EndsWith(f, MdSuffix)
FormattedOn(dir) == { f \in DOMAIN dir : dir[f].exists /\ IsFormatted(f) }

\* the orders in which readdir can list a set of names
ListingsOf(S) ==
  { fs \in [1..Cardinality(S) -> S] : \A j, k \in DOMAIN fs : fs[j] = fs[k] => j = k }

\* the other variables of the request handlers, unused by the index
indexUnused == <<selectedFiles, endpoint, files, useRAG, artifacts, pending, completed,
                 fileContents, contextText, ragResults, nextVersion, prompts, written,
                 response, apc>>

\* server.js:55-56 and 1841
InitIndex ==
  /\ text = <<>> /\ targetChunkSize = 0 /\ overlapSize = 0
  /\ Start
  /\ TopicsIdle
  /\ RagIdle
  /\ BatchIdle
  /\ VersionsIdle
  /\ BrowserIdle
  /\ selectedFiles = <<>> /\ endpoint = "none" /\ files = <<>> /\ useRAG = FALSE
  /\ artifacts = {} /\ pending = {} /\ completed = <<>> /\ fileContents = <<>>
  /\ contextText = <<>> /\ ragResults = <<>> /\ nextVersion = 0 /\ prompts = <<>>
  /\ written = <<>> /\ response = NoResponse /\ apc = "idle"
  /\ ragEnabled \in BOOLEAN
  /\ autoSync \in BOOLEAN
  /\ disk \in IndexDisks
  /\ vectorStore = <<>>
  /\ syncCalls = 0
  /\ indexResponse = NoResponse
  /\ ipc = "boot"

\* the variables no action of the index changes
indexFixed == <<splitVars, formatVars, pc, topicVars, ragVars, batchVars, versionVars,
                browserVars, indexUnused,
                ragEnabled, autoSync, disk>>

\* server.js:1845-1853, the formatted files are indexed at startup
StartupSync ==
  /\ ipc = "boot"
  /\ ragEnabled /\ autoSync
  /\ FormattedOn(disk) # {}
  /\ \E fs \in ListingsOf(FormattedOn(disk)) :
       vectorStore' = vectorStore \o Synced(fs, disk)
  /\ ipc' = "listening"
  /\ UNCHANGED <<indexFixed, syncCalls, indexResponse>>

\* server.js:1845 and 1850, nothing is indexed at startup
StartupNoSync ==
  /\ ipc = "boot"
  /\ ~(ragEnabled /\ autoSync /\ FormattedOn(disk) # {})
  /\ ipc' = "listening"
  /\ UNCHANGED <<indexFixed, vectorStore, syncCalls, indexResponse>>

\* server.js:1809-1811
SyncNoFiles ==
  /\ ipc = "listening" /\ syncCalls < MaxSyncs
  /\ syncCalls' = syncCalls + 1
  /\ indexResponse' = [status |-> 400, error |-> "No files specified"]
  /\ UNCHANGED <<indexFixed, vectorStore, ipc>>

\* server.js:381-383 and 1816
SyncDisabled ==
  /\ ipc = "listening" /\ syncCalls < MaxSyncs
  /\ ~ragEnabled
  /\ \E fs \in SyncRequests \ { <<>> } :
       indexResponse' = [status |-> 200, success |-> FALSE, requested |-> fs]
  /\ syncCalls' = syncCalls + 1
  /\ UNCHANGED <<indexFixed, vectorStore, ipc>>

\* server.js:1805-1817 and 380-425, the entries of the files are appended
Sync ==
  /\ ipc = "listening" /\ syncCalls < MaxSyncs
  /\ ragEnabled
  /\ \E fs \in SyncRequests \ { <<>> } :
       /\ vectorStore' = vectorStore \o Synced(fs, disk)
       /\ indexResponse' = [status |-> 200, success |-> TRUE,
                            filesIndexed |-> SyncedCount(fs, disk),
                            totalChunks |-> Len(Synced(fs, disk))]
  /\ syncCalls' = syncCalls + 1
  /\ UNCHANGED <<indexFixed, ipc>>

\* the contents held by the index
StoredContents == { vectorStore[k].content : k \in 1..Len(vectorStore) }

\* server.js:438-441, each entry with its similarity to the query
Scored(sim) ==
  [k \in 1..Len(vectorStore) |->
     [content |-> vectorStore[k].content, metadata |-> vectorStore[k].metadata,
      score |-> sim[vectorStore[k].content]]]

\* server.js:1824-1835 and 428-452: the query gives every content a
\* similarity
SearchRoute ==
  /\ ipc = "listening"
  /\ \E sim \in [StoredContents -> {0, 1}], topK \in {1, RAG_TOP_K} :
       indexResponse' = [status |-> 200, results |-> searchRAG(Scored(sim), topK)]
  /\ UNCHANGED <<indexFixed, vectorStore, syncCalls, ipc>>

NextIndex ==
  \/ StartupSync
  \/ StartupNoSync
  \/ SyncNoFiles
  \/ SyncDisabled
  \/ Sync
  \/ SearchRoute

SpecIndex == InitIndex /\ [][NextIndex]_vars

\* the (source, topic, chunk index) an entry stands for
ChunkKey(e) ==
  <<e.metadata.source,
    IF "topic" \in DOMAIN e.metadata THEN e.metadata.topic ELSE <<>>,
    e.metadata.chunkIndex>>

\* no two entries of a list stand for the same chunk
NoChunkTwice(es) ==
  \A j, k \in 1..Len(es) : ChunkKey(es[j]) = ChunkKey(es[k]) => j = k

\* C28: indexing is idempotent: whatever syncs have run, at startup and by
\* POST /api/rag/sync, the vector store holds at most one entry for each
\* (source, topic, chunk index), and a search never returns the same chunk
\* twice.
C28_OneEntryPerChunk ==
  /\ NoChunkTwice(vectorStore)
  /\ ("results" \in DOMAIN indexResponse) => NoChunkTwice(indexResponse.results)

(***************************************************************************)
(* POST /api/format-transcriptions, server.js:1709-1800, with              *)
(* parseFilename, server.js:88-116.                                        *)
(***************************************************************************)
\* at most MaxRuns runs of the route are followed
MaxRuns == 2

RECURSIVE SplitBy(_, _)
\* String.prototype.split(c) for a separator of one character
SplitBy(s, c) ==
  IF \A k \in 1..Len(s) : s[k] # c THEN <<s>>
  ELSE LET k == CHOOSE n \in 1..Len(s) : s[n] = c /\ \A m \in 1..(n - 1) : s[m] # c
       IN  <<SubSeq(s, 1, k - 1)>> \o SplitBy(SubSeq(s, k + 1, Len(s)), c)

\* String.prototype.replace(pattern, '') for a string pattern: the first
\* occurrence is removed
RemoveFirst(s, pattern) ==
  LET at == { k \in 1..(Len(s) - Len(pattern) + 1) :
                SubSeq(s, k, k + Len(pattern) - 1) = pattern }
  IN  IF at = {} THEN s
      ELSE LET k == CHOOSE n \in at : \A m \in at : n <= m
           IN  SubSeq(s, 1, k - 1) \o SubSeq(s, k + Len(pattern), Len(s))

\* server.js:89 and 97, the timestamp of a raw file name
RawTimestamp(filename) ==
  LET parts == SplitBy(filename, "_")
  IN  RemoveFirst(Join(SubSeq(parts, 3, Len(parts)), <<"_">>), TxtSuffix)

\* server.js:1731, the name of the formatted counterpart
FormattedFileOf(rawFile) == FormattedPrefix \o RawTimestamp(rawFile) \o MdSuffix

MetaSuffix ==
  <<".", "m", "e", "t", "a", ".", "j", "s", "o", "n">>

\* server.js:1754
MetaFileOf(rawFile) == FormattedFileOf(rawFile) \o MetaSuffix

\* raw transcriptions: a timestamp with an underscore, and two names with
\* '.txt' twice
RawOne == RawPrefix \o <<"1", "_", "0">> \o TxtSuffix
RawTwo == RawPrefix \o TxtSuffix \o <<"2">> \o TxtSuffix
RawTwoTxt == RawPrefix \o <<"2">> \o TxtSuffix \o TxtSuffix
RawNames == {RawOne, RawTwo, RawTwoTxt}

\* server.js:1713, files.filter(f => f.startsWith('interview_raw_') &&
\* f.endsWith('.txt'))
IsRaw(f) == StartsWith(f, RawPrefix) /\ EndsWith(f, TxtSuffix)

\* the directories at the start: raw files, and counterparts of some of them
\* left by earlier runs
BatchDirs ==
  { raws \cup { FormattedFileOf(r) : r \in done } \cup { MetaFileOf(r) : r \in done } :
      raws \in SUBSET RawNames, done \in SUBSET RawNames }

InitBatch ==
  /\ CoreIdle
  /\ RagIdle
  /\ IndexIdle
  /\ VersionsIdle
  /\ BrowserIdle
  /\ transcriptions \in BatchDirs
  /\ rawFiles = <<>>
  /\ rawIdx = 0
  /\ processedCount = 0
  /\ skippedCount = 0
  /\ results = <<>>
  /\ transformLog = <<>>
  /\ writeLog = <<>>
  /\ batchRuns = 0
  /\ batchResponse = NoResponse
  /\ afterComplete = FALSE
  /\ sinceComplete = FALSE
  /\ bpc = "idle"

\* the variables the route leaves alone
notBatchVars == <<coreVars, ragVars, indexVars, versionVars, browserVars>>

\* a recording is put into the directory
ArriveRaw ==
  /\ \E r \in RawNames \ transcriptions : transcriptions' = transcriptions \cup {r}
  /\ sinceComplete' = FALSE
  /\ UNCHANGED <<notBatchVars, rawFiles, rawIdx, processedCount, skippedCount, results,
                 transformLog, writeLog, batchRuns, batchResponse, afterComplete, bpc>>

\* server.js:1712-1721, no raw transcription in the directory
NoRawFiles ==
  /\ bpc = "idle" /\ batchRuns < MaxRuns
  /\ { f \in transcriptions : IsRaw(f) } = {}
  /\ batchRuns' = batchRuns + 1
  /\ batchResponse' = [status |-> 200, processed |-> 0, skipped |-> 0, results |-> <<>>]
  /\ afterComplete' = sinceComplete
  /\ sinceComplete' = TRUE
  /\ UNCHANGED <<notBatchVars, transcriptions, rawFiles, rawIdx, processedCount,
                 skippedCount, results, transformLog, writeLog, bpc>>

\* server.js:1712-1727, the raw transcriptions are listed
StartRun ==
  /\ bpc = "idle" /\ batchRuns < MaxRuns
  /\ { f \in transcriptions : IsRaw(f) } # {}
  /\ rawFiles' \in ListingsOf({ f \in transcriptions : IsRaw(f) })
  /\ rawIdx' = 1
  /\ processedCount' = 0
  /\ skippedCount' = 0
  /\ results' = <<>>
  /\ batchRuns' = batchRuns + 1
  /\ afterComplete' = sinceComplete
  /\ sinceComplete' = TRUE
  /\ bpc' = "loop"
  /\ UNCHANGED <<notBatchVars, transcriptions, transformLog, writeLog, batchResponse>>

\* the raw file the loop is at
rawFile == rawFiles[rawIdx]
InLoop == bpc = "loop" /\ rawIdx <= Len(rawFiles)
AlreadyFormatted == FormattedFileOf(rawFile) \in transcriptions

\* SkipFile that formats the file again
FormatAgain ==
  /\ InLoop
  /\ AlreadyFormatted
  /\ transformLog' = Append(transformLog, rawFile)
  /\ writeLog' = Append(writeLog, FormattedFileOf(rawFile))
  /\ processedCount' = processedCount + 1
  /\ results' = Append(results, [file |-> rawFile, status |-> "success"])
  /\ rawIdx' = rawIdx + 1
  /\ UNCHANGED <<notBatchVars, transcriptions, rawFiles, skippedCount, batchRuns,
                 batchResponse, afterComplete, sinceComplete, bpc>>

\* server.js:1729-1740, the formatted counterpart exists
SkipFile ==
  /\ InLoop
  /\ AlreadyFormatted
  /\ skippedCount' = skippedCount + 1
  /\ results' = Append(results, [file |-> rawFile, status |-> "skipped"])
  /\ rawIdx' = rawIdx + 1
  /\ UNCHANGED <<notBatchVars, transcriptions, rawFiles, processedCount, transformLog,
                 writeLog, batchRuns, batchResponse, afterComplete, sinceComplete, bpc>>

\* server.js:1745-1768, the file is formatted and written with its metadata
FormatFile ==
  /\ InLoop
  /\ ~AlreadyFormatted
  /\ transformLog' = Append(transformLog, rawFile)
  /\ writeLog' = Append(writeLog, FormattedFileOf(rawFile))
  /\ transcriptions' =
       transcriptions \cup {FormattedFileOf(rawFile), MetaFileOf(rawFile)}
  /\ processedCount' = processedCount + 1
  /\ results' = Append(results, [file |-> rawFile, status |-> "success"])
  /\ rawIdx' = rawIdx + 1
  /\ UNCHANGED <<notBatchVars, rawFiles, skippedCount, batchRuns, batchResponse,
                 afterComplete, sinceComplete, bpc>>

\* server.js:1750 and 1769-1776, formatTranscription throws
FormatThrows ==
  /\ InLoop
  /\ ~AlreadyFormatted
  /\ transformLog' = Append(transformLog, rawFile)
  /\ results' = Append(results, [file |-> rawFile, status |-> "error"])
  /\ rawIdx' = rawIdx + 1
  /\ UNCHANGED <<notBatchVars, transcriptions, rawFiles, processedCount, skippedCount,
                 writeLog, batchRuns, batchResponse, afterComplete, sinceComplete, bpc>>

\* server.js:1747 and 1796-1799, the raw file cannot be read
RawReadFails ==
  /\ InLoop
  /\ ~AlreadyFormatted
  /\ batchResponse' = [status |-> 500, error |-> "read"]
  /\ sinceComplete' = FALSE
  /\ bpc' = "idle"
  /\ UNCHANGED <<notBatchVars, transcriptions, rawFiles, rawIdx, processedCount,
                 skippedCount, results, transformLog, writeLog, batchRuns, afterComplete>>

\* server.js:1779-1795, the counts are reported
Report ==
  /\ bpc = "loop" /\ rawIdx > Len(rawFiles)
  /\ batchResponse' = [status |-> 200, processed |-> processedCount,
                       skipped |-> skippedCount, results |-> results]
  /\ sinceComplete' =
       (sinceComplete /\ \A k \in 1..Len(results) : results[k].status # "error")
  /\ bpc' = "idle"
  /\ UNCHANGED <<notBatchVars, transcriptions, rawFiles, rawIdx, processedCount,
                 skippedCount, results, transformLog, writeLog, batchRuns, afterComplete>>

NextBatch ==
  \/ ArriveRaw
  \/ NoRawFiles
  \/ StartRun
  \/ SkipFile
  \/ FormatFile
  \/ FormatThrows
  \/ RawReadFails
  \/ Report

SpecBatch == InitBatch /\ [][NextBatch]_vars

\* C30: a raw transcription whose formatted counterpart
\* interview_formatted_<timestamp>.md exists is skipped: formatTranscription
\* is not called for it and nothing is written.  A run that starts after a
\* complete run, with no new raw file in between, formats nothing and
\* reports processed = 0 with every raw file skipped.
C30_FormattedIsSkipped ==
  [][ /\ (InLoop /\ AlreadyFormatted /\ rawIdx' # rawIdx) =>
          /\ transformLog' = transformLog
          /\ writeLog' = writeLog
          /\ transcriptions' = transcriptions
          /\ skippedCount' = skippedCount + 1
          /\ processedCount' = processedCount
      /\ (afterComplete /\ batchResponse' # batchResponse) =>
          /\ batchResponse'.status = 200
          /\ batchResponse'.processed = 0
          /\ batchResponse'.skipped = Len(batchResponse'.results)
          /\ transformLog' = transformLog
          /\ \A k \in 1..Len(results) : results[k].status = "skipped" ]_vars

\* a first run formatted two files, one of them the counterpart of two raw
\* names, and the second run has skipped all three
C30_Witness ==
  /\ bpc = "idle" /\ batchRuns = 2 /\ afterComplete
  /\ Len(writeLog) = 2
  /\ batchResponse.status = 200 /\ batchResponse.processed = 0
  /\ batchResponse.skipped = 3

(***************************************************************************)
(* The version and the file name of a new artifact: POST /api/prompt       *)
(* (server.js:935-973), POST /api/run-agent (1489-1497, 1568-1576), POST   *)
(* /api/run-saved-prompt (1640-1679) and getTimestamp (82-85).  The three  *)
(* routes run the same statements.                                         *)
(***************************************************************************)
\* at most MaxStarted requests are accepted and the clock runs to MaxClock
MaxStarted == 3
MaxClock == 1

\* two requests can be in flight at a time
Slots == {1, 2}

\* artifact names the page accepts (app.js:972, /^[a-zA-Z0-9_-]+$/)
NameR == <<"r">>
NameRv2 == <<"r", "_", "v", "2">>
ArtifactNames == {NameR, NameRv2}

ArtifactPrefix == <<"a", "r", "t", "i", "f", "a", "c", "t", "_">>
VersionMark == <<"_", "v">>

\* server.js:82-85, the timestamp of second t: the date, '_', the time
getTimestamp(t) == <<"1", "_">> \o NumberToString(t)

\* server.js:1569 and 1575, the name of a file of the directory
ArtifactFilename(file) ==
  ArtifactPrefix \o file.name \o VersionMark \o NumberToString(file.version)
    \o <<"_">> \o getTimestamp(file.stamp) \o MdSuffix
    \o (IF file.meta THEN MetaSuffix ELSE <<>>)

\* the decimal digits
IsDigit(c) == \E d \in 1..10 : DigitChar[d] = c

RECURSIVE ParseInt(_)
\* parseInt of a string of decimal digits
ParseInt(ds) ==
  IF ds = <<>> THEN 0
  ELSE 10 * ParseInt(SubSeq(ds, 1, Len(ds) - 1))
         + ((CHOOSE d \in 1..10 : DigitChar[d] = ds[Len(ds)]) - 1)

\* the end of the run of digits of f that starts at position k
DigitsEnd(f, k) ==
  CHOOSE e \in (k - 1)..Len(f) :
    /\ \A m \in k..e : IsDigit(f[m])
    /\ e = Len(f) \/ ~IsDigit(f[e + 1])

\* '_v(\d+)_' matches f at position k
VersionAt(f, k) ==
  /\ k + 3 <= Len(f)
  /\ f[k] = "_" /\ f[k + 1] = "v"
  /\ DigitsEnd(f, k + 2) >= k + 2
  /\ DigitsEnd(f, k + 2) < Len(f)
  /\ f[DigitsEnd(f, k + 2) + 1] = "_"

\* f.match(/artifact_.*_v(\d+)_/) for a name that starts with 'artifact_':
\* '.*' is greedy, so the group is the last '_v(\d+)_' after the prefix;
\* match ? parseInt(match[1]) : 0
MatchedVersion(f) ==
  LET at == { k \in (Len(ArtifactPrefix) + 1)..Len(f) : VersionAt(f, k) }
  IN  IF at = {} THEN 0
      ELSE LET k == CHOOSE n \in at : \A m \in at : m <= n
           IN  ParseInt(SubSeq(f, k + 2, DigitsEnd(f, k + 2)))

\* server.js:1490-1496, existingVersions
existingVersions(dir, artifactName) ==
  { MatchedVersion(ArtifactFilename(file)) :
      file \in { x \in dir :
                   StartsWith(ArtifactFilename(x),
                              ArtifactPrefix \o artifactName \o VersionMark) } }

\* server.js:1497
NextVersionIn(dir, artifactName) ==
  IF existingVersions(dir, artifactName) # {}
  THEN MaxOf(existingVersions(dir, artifactName)) + 1
  ELSE 1

NoRequest == [stage |-> "idle"]

InitVersions ==
  /\ CoreIdle
  /\ RagIdle
  /\ IndexIdle
  /\ BatchIdle
  /\ BrowserIdle
  /\ artifactDir = {}
  /\ now = 0
  /\ reqs = [q \in Slots |-> NoRequest]
  /\ started = 0
  /\ responses = <<>>
  /\ artifactWrites = <<>>

\* the variables the artifact routes leave alone here
notVersionVars == <<coreVars, ragVars, indexVars, batchVars, browserVars>>

\* a second passes
Tick ==
  /\ now < MaxClock
  /\ now' = now + 1
  /\ UNCHANGED <<notVersionVars, artifactDir, reqs, started, responses, artifactWrites>>

\* server.js:1426-1430, a request with an artifact name is accepted
AcceptRequest ==
  /\ started < MaxStarted
  /\ \E q \in Slots, n \in ArtifactNames :
       /\ reqs[q].stage = "idle"
       /\ reqs' = [reqs EXCEPT ![q] = [stage |-> "accepted", artifactName |-> n]]
  /\ started' = started + 1
  /\ UNCHANGED <<notVersionVars, artifactDir, now, responses, artifactWrites>>

\* server.js:1489-1497, the directory is listed and the version chosen
ListVersions ==
  /\ \E q \in Slots :
       /\ reqs[q].stage = "accepted"
       /\ reqs' = [reqs EXCEPT ![q] =
                     [stage |-> "invoking",
                      artifactName |-> reqs[q].artifactName,
                      nextVersion |-> NextVersionIn(artifactDir, reqs[q].artifactName)]]
  /\ UNCHANGED <<notVersionVars, artifactDir, now, started, responses, artifactWrites>>

\* server.js:1543, llm.invoke answers
ModelAnswers ==
  /\ \E q \in Slots :
       /\ reqs[q].stage = "invoking"
       /\ reqs' = [reqs EXCEPT ![q].stage = "saving"]
  /\ UNCHANGED <<notVersionVars, artifactDir, now, started, responses, artifactWrites>>

\* server.js:1543 and 1587-1590, llm.invoke throws
ModelThrows ==
  /\ \E q \in Slots :
       /\ reqs[q].stage = "invoking"
       /\ responses' = Append(responses, [status |-> 500])
       /\ reqs' = [reqs EXCEPT ![q] = NoRequest]
  /\ UNCHANGED <<notVersionVars, artifactDir, now, started, artifactWrites>>

\* the file a request writes at second t
ArtifactOf(r, t) ==
  [name |-> r.artifactName, version |-> r.nextVersion, stamp |-> t, meta |-> FALSE]

\* server.js:1568-1572, the artifact is written under the name of this second
WriteArtifact ==
  /\ \E q \in Slots :
       /\ reqs[q].stage = "saving"
       /\ artifactDir' = artifactDir \cup {ArtifactOf(reqs[q], now)}
       /\ artifactWrites' =
            Append(artifactWrites, ArtifactFilename(ArtifactOf(reqs[q], now)))
       /\ reqs' = [reqs EXCEPT ![q] =
                     [stage |-> "meta",
                      artifactName |-> reqs[q].artifactName,
                      nextVersion |-> reqs[q].nextVersion, stamp |-> now]]
  /\ UNCHANGED <<notVersionVars, now, started, responses>>

\* server.js:1574-1585, the metadata is written and the response sent
WriteMeta ==
  /\ \E q \in Slots :
       /\ reqs[q].stage = "meta"
       /\ artifactDir' =
            artifactDir \cup
              {[name |-> reqs[q].artifactName, version |-> reqs[q].nextVersion,
                stamp |-> reqs[q].stamp, meta |-> TRUE]}
       /\ responses' =
            Append(responses,
                   [status |-> 200,
                    artifactName |-> reqs[q].artifactName,
                    version |-> reqs[q].nextVersion,
                    filename |-> ArtifactFilename([name |-> reqs[q].artifactName,
                                                   version |-> reqs[q].nextVersion,
                                                   stamp |-> reqs[q].stamp,
                                                   meta |-> FALSE])])
       /\ reqs' = [reqs EXCEPT ![q] = NoRequest]
  /\ UNCHANGED <<notVersionVars, now, started, artifactWrites>>

NextVersions ==
  \/ Tick
  \/ AcceptRequest
  \/ ListVersions
  \/ ModelAnswers
  \/ ModelThrows
  \/ WriteArtifact
  \/ WriteMeta

SpecVersions == InitVersions /\ [][NextVersions]_vars

\* the versions of the files of artifact n
VersionsOf(n) == { file.version : file \in { x \in artifactDir : x.name = n } }

\* C23: for requests handled one after the other, a new artifact named n
\* gets version 1 when no artifact file of n exists and 1 + the highest
\* existing version of n otherwise.
C23_SequentialVersions ==
  [][ \A q \in Slots :
        ( /\ reqs[q].stage = "accepted"
          /\ reqs'[q].stage = "invoking"
          /\ \A o \in Slots \ {q} : reqs[o].stage = "idle" ) =>
            reqs'[q].nextVersion =
              IF VersionsOf(reqs[q].artifactName) = {} THEN 1
              ELSE MaxOf(VersionsOf(reqs[q].artifactName)) + 1 ]_vars

\* C26: two artifact requests for one name that overlap never get the same
\* version, and no artifact file is written over.
C26_NoSharedVersion ==
  /\ \A j, k \in 1..Len(responses) :
       ( /\ j < k
         /\ responses[j].status = 200 /\ responses[k].status = 200
         /\ responses[j].artifactName = responses[k].artifactName ) =>
           responses[j].version # responses[k].version
  /\ \A j, k \in 1..Len(artifactWrites) :
       j < k => artifactWrites[j] # artifactWrites[k]

(***************************************************************************)
(* The selection of the page: handleFileClick, removeSelectedFile and      *)
(* clearSelection (app.js:217-235, 335-345), viewFile (app.js:237-252),    *)
(* and toggleTopic, selectWholeFile, selectAllTopics, clearTopicSelection  *)
(* and getSelectedFilesForAPI (app-topics-addon.js:65-163).                *)
(***************************************************************************)
\* what GET /files/:filename and GET /files/:filename/topics serve
ServedContent(f) == IF f = FileA THEN DocTwoTopics ELSE DocEdited
ServedTopicIds(f) ==
  [k \in 1..Len(parseTopics(ServedContent(f))) |-> parseTopics(ServedContent(f))[k].id]

\* selectedFiles.has(filename)
Has(sel, f) == \E k \in 1..Len(sel) : sel[k].file = f
\* selectedFiles.get(filename), for a key the Map has
Get(sel, f) == sel[CHOOSE k \in 1..Len(sel) : sel[k].file = f]
\* selectedFiles.delete(filename)
Delete(sel, f) == SelectSeq(sel, LAMBDA e : e.file # f)
\* selectedFiles.set(filename, {topics}): a key the Map has keeps its place
Set(sel, f, ts) ==
  IF Has(sel, f)
  THEN [k \in 1..Len(sel) |-> IF sel[k].file = f THEN [file |-> f, topics |-> ts] ELSE sel[k]]
  ELSE Append(sel, [file |-> f, topics |-> ts])

\* app-topics-addon.js:22-27 and 278-280, the topics panel of the file in
\* the viewer is on the page
PanelShown(f) ==
  /\ currentFile = f
  /\ EndsWith(f, MdSuffix)
  /\ f \in DOMAIN fileTopics
  /\ Len(fileTopics[f]) > 0

\* app.js:6-8
InitBrowser ==
  /\ CoreIdle
  /\ RagIdle
  /\ IndexIdle
  /\ BatchIdle
  /\ VersionsIdle
  /\ fileTopics = <<>>
  /\ currentFile = <<>>
  /\ chosen = {}
  /\ lastOp = "load"

\* the variables the page leaves alone
browserFixed == <<splitVars, formatVars, pc, topicVars, endpoint, files, useRAG, ragEnabled,
                  disk, vectorStore, artifacts, pending, completed, fileContents,
                  contextText, ragResults, nextVersion, prompts, written, response, apc,
                  ragVars, indexVars, batchVars, versionVars>>

\* app.js:217-231, a click with ctrl or meta
handleFileClick ==
  /\ \E f \in FileNames :
       IF Has(selectedFiles, f)
       THEN /\ selectedFiles' = Delete(selectedFiles, f)
            /\ chosen' = chosen \ {f}
       ELSE /\ selectedFiles' = Set(selectedFiles, f, <<>>)
            /\ chosen' = chosen \cup {f}
  /\ lastOp' = "handleFileClick"
  /\ UNCHANGED <<browserFixed, fileTopics, currentFile>>

\* app.js:232-233 and 237-252, app-topics-addon.js:22-27: a plain click
\* shows the file and loads its topics when they are not cached
viewFile ==
  /\ \E f \in FileNames :
       /\ currentFile' = f
       /\ fileTopics' =
            IF EndsWith(f, MdSuffix) /\ f \notin DOMAIN fileTopics
            THEN [g \in DOMAIN fileTopics \cup {f} |->
                    IF g = f THEN ServedTopicIds(f) ELSE fileTopics[g]]
            ELSE fileTopics
  /\ lastOp' = "viewFile"
  /\ UNCHANGED <<browserFixed, selectedFiles, chosen>>

\* the topics of the entry of f, app-topics-addon.js:67-71
TopicsOf(sel, f) == IF Has(sel, f) THEN Get(sel, f).topics ELSE <<>>

\* app-topics-addon.js:66-89
toggleTopic ==
  /\ \E f \in FileNames :
       /\ PanelShown(f)
       /\ \E n \in 1..Len(fileTopics[f]) :
            LET topicId == fileTopics[f][n]
                old == TopicsOf(selectedFiles, f)
                new == IF \E k \in 1..Len(old) : old[k] = topicId
                       THEN SelectSeq(old, LAMBDA t : t # topicId)
                       ELSE Append(old, topicId)
            IN  /\ selectedFiles' =
                     IF Len(new) = 0 THEN Delete(selectedFiles, f)
                     ELSE Set(selectedFiles, f, new)
                /\ chosen' = IF Len(new) > 0 THEN chosen \cup {f} ELSE chosen
  /\ lastOp' = "toggleTopic"
  /\ UNCHANGED <<browserFixed, fileTopics, currentFile>>

\* app-topics-addon.js:92-96
selectWholeFile ==
  /\ \E f \in FileNames :
       /\ PanelShown(f)
       /\ selectedFiles' = Delete(selectedFiles, f)
  /\ lastOp' = "selectWholeFile"
  /\ UNCHANGED <<browserFixed, fileTopics, currentFile, chosen>>

\* app-topics-addon.js:120-130
selectAllTopics ==
  /\ \E f \in FileNames :
       /\ PanelShown(f)
       /\ selectedFiles' = Set(selectedFiles, f, fileTopics[f])
       /\ chosen' = chosen \cup {f}
  /\ lastOp' = "selectAllTopics"
  /\ UNCHANGED <<browserFixed, fileTopics, currentFile>>

\* app-topics-addon.js:133-138
clearTopicSelection ==
  /\ \E f \in FileNames :
       /\ PanelShown(f)
       /\ selectedFiles' = Delete(selectedFiles, f)
  /\ lastOp' = "clearTopicSelection"
  /\ UNCHANGED <<browserFixed, fileTopics, currentFile, chosen>>

\* app.js:335-339, the remove button of an entry of the selected list
removeSelectedFile ==
  /\ \E f \in FileNames :
       /\ Has(selectedFiles, f)
       /\ selectedFiles' = Delete(selectedFiles, f)
       /\ chosen' = chosen \ {f}
  /\ lastOp' = "removeSelectedFile"
  /\ UNCHANGED <<browserFixed, fileTopics, currentFile>>

\* app.js:341-345
clearSelection ==
  /\ selectedFiles' = <<>>
  /\ chosen' = {}
  /\ lastOp' = "clearSelection"
  /\ UNCHANGED <<browserFixed, fileTopics, currentFile>>

NextBrowser ==
  \/ handleFileClick
  \/ viewFile
  \/ toggleTopic
  \/ selectWholeFile
  \/ selectAllTopics
  \/ clearTopicSelection
  \/ removeSelectedFile
  \/ clearSelection

SpecBrowser == InitBrowser /\ [][NextBrowser]_vars

\* the payload names file f
InPayload(f) ==
  \E k \in 1..Len(selectedFiles) : getSelectedFilesForAPI(selectedFiles)[k].file = f

\* the payload holds f as a whole file
WholeFileInPayload(f) ==
  \E k \in 1..Len(selectedFiles) :
    getSelectedFilesForAPI(selectedFiles)[k]
      = [isObject |-> FALSE, file |-> f, topicIds |-> <<>>]

\* C27: after any sequence of ctrl-click, toggleTopic, selectAllTopics,
\* selectWholeFile and clearTopicSelection, a file that was selected and not
\* deselected (ctrl-click, removeSelectedFile, clearSelection) is in the
\* list getSelectedFilesForAPI returns; after 'Entire File' or 'Clear', or
\* after its last topic is unchecked, it is there as a whole file.
C27_SelectedStaysInPayload ==
  /\ \A f \in chosen : InPayload(f)
  /\ ( /\ lastOp \in {"selectWholeFile", "clearTopicSelection", "toggleTopic"}
       /\ currentFile \in chosen
       /\ TopicsOf(selectedFiles, currentFile) = <<>> ) =>
         WholeFileInPayload(currentFile)

====
